---------------------------- MODULE Spec2Model ----------------------------
(***************************************************************************)
(* A model of UniTorch's configuration plumbing: the from_core_configure   *)
(* class methods that merge user options with registry defaults, the       *)
(* regular-expression tables that prefix and rename state-dict keys, the    *)
(* generate methods of the ControlNet models, T5Processor._detokenize, the  *)
(* ControlNetXLProcessor, the calls of the MultiControlNetXL inpainting     *)
(* pipeline and the lazily built depth estimator of cli/pipelines/stable_xl.*)
(*                                                                         *)
(* A state-dict key is a sequence of one-character strings, so that a       *)
(* regular expression is matched character by character as Python's re     *)
(* module matches it.                                                      *)
(***************************************************************************)
EXTENDS Integers, Sequences, FiniteSets, TLC

VARIABLES
    call,        \* the method call in progress and its arguments
    result,      \* what the call has done and returned so far
    pipelines,   \* the pipeline objects built so far
    dpt_pipe,    \* the global dpt_pipe of cli/pipelines/stable_xl
    heap,        \* the DPT pipeline objects constructed so far
    threads      \* the callers of depth() and canny()

\* The objects that outlive a call.
objects == <<pipelines, dpt_pipe, heap, threads>>

vars == <<call, result, pipelines, dpt_pipe, heap, threads>>

(***************************************************************************)
(* Bounds of the model.                                                    *)
(***************************************************************************)
\* Fragments concatenated into a key handed to prefix_keys_in_state_dict.
MaxFrags == 3
\* Dot-separated segments of a key handed to replace_keys_in_state_dict.
MaxSegs == 3
\* A configuration sets at most this many of a class's path options, or all
\* but at most this many.
MaxUserPaths == 1
\* Sequences of a GenerationOutputs handed to _detokenize.
MaxSeqs == 2
\* Tokens of each of its sequences.
SeqLen == 2
\* max_seq_length of the ControlNetXLProcessor under test.
ProcessorMaxSeqLength == 4
\* Callers of depth() and canny().
MaxThreads == 2

(***************************************************************************)
(* Python values: None, a path string, a list, a bool, a number, a dict, a  *)
(* tensor; Raised stands for a raised exception.                            *)
(***************************************************************************)
None == [kind |-> "none"]
Str(path) == [kind |-> "str", path |-> path]
List(items) == [kind |-> "list", items |-> items]
Bool(b) == [kind |-> "bool", b |-> b]
Number(n) == [kind |-> "int", n |-> n]
Dict(items) == [kind |-> "dict", items |-> items]
Tensor(id) == [kind |-> "tensor", id |-> id]
Raised == [kind |-> "error"]

(***************************************************************************)
(* Regular expressions.  A pattern is a sequence of atoms; an atom is a     *)
(* literal character or "ANY" (an unescaped dot).  The tables' patterns all *)
(* start with ^ or are matched with re.match, so a pattern matches a key    *)
(* when it matches at the key's first character; the trailing .* of the     *)
(* prefix patterns matches any rest.                                        *)
(***************************************************************************)
AtomMatches(a, c) == a = "ANY" \/ a = c

MatchesAt(atoms, key, i) ==
    /\ i + Len(atoms) - 1 <= Len(key)
    /\ \A j \in 1..Len(atoms) : AtomMatches(atoms[j], key[i + j - 1])

re_match(atoms, key) == MatchesAt(atoms, key, 1)

RECURSIVE re_sub_from(_, _, _, _)
re_sub_from(atoms, repl, key, i) ==
    IF i > Len(key) THEN <<>>
    ELSE IF MatchesAt(atoms, key, i)
         THEN repl \o re_sub_from(atoms, repl, key, i + Len(atoms))
         ELSE <<key[i]>> \o re_sub_from(atoms, repl, key, i + 1)

\* re.sub(pattern, repl, key): leftmost, non-overlapping matches replaced.
re_sub(atoms, repl, key) ==
    IF Len(atoms) = 0 THEN key ELSE re_sub_from(atoms, repl, key, 1)

StartsWith(key, lit) == MatchesAt(lit, key, 1)

(***************************************************************************)
(* The classes of modeling_controlnet.py and modeling_controlnet_xl.py.     *)
(***************************************************************************)
ControlNetClasses ==
    {"ControlNetForText2ImageGeneration",
     "ControlNetForImage2ImageGeneration",
     "ControlNetForImageInpainting"}

ControlNetXLClasses ==
    {"ControlNetXLForText2ImageGeneration",
     "ControlNetXLForImage2ImageGeneration",
     "ControlNetXLForImageInpainting"}

UnetPrefix == <<"u","n","e","t",".">>
TextPrefix == <<"t","e","x","t",".">>
VaePrefix == <<"v","a","e",".">>

\* A copy-paste slip: ^quant_conv.* given the UNet's prefix.
CommonPrefixKeysSlip ==
    << [pattern |-> <<"c","o","n","v","_","i","n">>,         prefix |-> UnetPrefix],
       [pattern |-> <<"c","o","n","v","_","n","o","r","m","_","o","u","t">>,   prefix |-> UnetPrefix],
       [pattern |-> <<"c","o","n","v","_","o","u","t">>,        prefix |-> UnetPrefix],
       [pattern |-> <<"t","i","m","e","_","e","m","b","e","d","d","i","n","g">>,  prefix |-> UnetPrefix],
       [pattern |-> <<"u","p","_","b","l","o","c","k","s">>,       prefix |-> UnetPrefix],
       [pattern |-> <<"m","i","d","_","b","l","o","c","k">>,       prefix |-> UnetPrefix],
       [pattern |-> <<"d","o","w","n","_","b","l","o","c","k","s">>,     prefix |-> UnetPrefix],
       [pattern |-> <<"e","n","c","o","d","e","r">>,         prefix |-> VaePrefix],
       [pattern |-> <<"d","e","c","o","d","e","r">>,         prefix |-> VaePrefix],
       [pattern |-> <<"p","o","s","t","_","q","u","a","n","t","_","c","o","n","v">>, prefix |-> VaePrefix],
       [pattern |-> <<"q","u","a","n","t","_","c","o","n","v">>,      prefix |-> UnetPrefix] >>

\* The entries every one of the six tables holds.
CommonPrefixKeys ==
    << [pattern |-> <<"c","o","n","v","_","i","n">>,         prefix |-> UnetPrefix],
       [pattern |-> <<"c","o","n","v","_","n","o","r","m","_","o","u","t">>,   prefix |-> UnetPrefix],
       [pattern |-> <<"c","o","n","v","_","o","u","t">>,        prefix |-> UnetPrefix],
       [pattern |-> <<"t","i","m","e","_","e","m","b","e","d","d","i","n","g">>,  prefix |-> UnetPrefix],
       [pattern |-> <<"u","p","_","b","l","o","c","k","s">>,       prefix |-> UnetPrefix],
       [pattern |-> <<"m","i","d","_","b","l","o","c","k">>,       prefix |-> UnetPrefix],
       [pattern |-> <<"d","o","w","n","_","b","l","o","c","k","s">>,     prefix |-> UnetPrefix],
       [pattern |-> <<"e","n","c","o","d","e","r">>,         prefix |-> VaePrefix],
       [pattern |-> <<"d","e","c","o","d","e","r">>,         prefix |-> VaePrefix],
       [pattern |-> <<"p","o","s","t","_","q","u","a","n","t","_","c","o","n","v">>, prefix |-> VaePrefix],
       [pattern |-> <<"q","u","a","n","t","_","c","o","n","v">>,      prefix |-> VaePrefix] >>

\* prefix_keys_in_state_dict of class cls: ^<pattern>.* -> prefix.
prefix_keys_in_state_dict(cls) ==
    IF cls \in ControlNetClasses
    THEN CommonPrefixKeys
             \o << [pattern |-> <<"t","e","x","t","_","m","o","d","e","l">>, prefix |-> TextPrefix] >>
    ELSE << [pattern |-> <<"a","d","d","_","e","m","b","e","d","d","i","n","g">>, prefix |-> UnetPrefix] >>
             \o CommonPrefixKeys

\* The prefixes of all the patterns of cls's table that match key.
MatchingPrefixes(cls, key) ==
    LET table == prefix_keys_in_state_dict(cls)
    IN  {table[i].prefix :
            i \in {j \in 1..Len(table) : re_match(table[j].pattern, key)}}

\* A slip in one rule: .key. renamed to a name another rule matches.
replace_keys_in_state_dict_slip ==
    << [pattern |-> <<".","q","u","e","r","y",".">>,     repl |-> <<".","t","o","_","q",".">>],
       [pattern |-> <<".","k","e","y",".">>,       repl |-> <<".","q","u","e","r","y",".">>],
       [pattern |-> <<".","v","a","l","u","e",".">>,     repl |-> <<".","t","o","_","v",".">>],
       [pattern |-> <<".","p","r","o","j","_","a","t","t","n",".">>, repl |-> <<".","t","o","_","o","u","t",".","0",".">>] >>

\* replace_keys_in_state_dict, the same in the six classes, in dict order.
replace_keys_in_state_dict ==
    << [pattern |-> <<".","q","u","e","r","y",".">>,     repl |-> <<".","t","o","_","q",".">>],
       [pattern |-> <<".","k","e","y",".">>,       repl |-> <<".","t","o","_","k",".">>],
       [pattern |-> <<".","v","a","l","u","e",".">>,     repl |-> <<".","t","o","_","v",".">>],
       [pattern |-> <<".","p","r","o","j","_","a","t","t","n",".">>, repl |-> <<".","t","o","_","o","u","t",".","0",".">>] >>

\* The rules of a table applied one after the other in the order given.
RECURSIVE ApplyRules(_, _, _)
ApplyRules(rules, order, key) ==
    IF order = <<>> THEN key
    ELSE ApplyRules(rules, Tail(order),
                    re_sub(rules[Head(order)].pattern,
                           rules[Head(order)].repl, key))

Perms(n) ==
    {p \in [1..n -> 1..n] : \A i, j \in 1..n : i # j => p[i] # p[j]}

DictOrder(rules) == [i \in 1..Len(rules) |-> i]

(***************************************************************************)
(* Keys.                                                                   *)
(***************************************************************************)
PrefixFrags ==
    {<<"c","o","n","v","_","i","n">>, <<"c","o","n","v","_","n","o","r","m","_","o","u","t">>, <<"c","o","n","v","_","o","u","t">>, <<"p","o","s","t","_","q","u","a","n","t","_","c","o","n","v">>,
     <<"q","u","a","n","t","_","c","o","n","v">>, <<"p","o","s","t","_">>, <<"e","n","c","o","d","e","r">>, <<"t","e","x","t","_","m","o","d","e","l">>, <<"a","d","d","_","e","m","b","e","d","d","i","n","g">>,
     <<".">>, <<"w","e","i","g","h","t">>}

RECURSIVE FragKeys(_)
FragKeys(n) ==
    IF n = 0 THEN {<<>>}
    ELSE LET shorter == FragKeys(n - 1)
         IN  shorter \cup {k \o f : k \in shorter, f \in PrefixFrags}

RenameSegs == {<<"q","u","e","r","y">>, <<"k","e","y">>, <<"v","a","l","u","e">>, <<"p","r","o","j","_","a","t","t","n">>, <<"t","o","_","k">>}

RECURSIVE SegKeys(_)
SegKeys(n) ==
    IF n = 0 THEN {<<>>}
    ELSE LET shorter == SegKeys(n - 1)
         IN  shorter \cup {k \o <<".">> \o s : k \in shorter, s \in RenameSegs}

\* down_blocks<.seg>*.weight, and the same segments with nothing around them.
RenameKeys ==
    {<<"d","o","w","n","_","b","l","o","c","k","s">> \o k \o <<".","w","e","i","g","h","t">> : k \in SegKeys(MaxSegs)}
        \cup {Tail(k) : k \in SegKeys(MaxSegs) \ {<<>>}}

(***************************************************************************)
(* Initial state: nothing has been called.                                 *)
(***************************************************************************)
Idle == [op |-> "idle"]

NoResult == [status |-> "none"]

Threads == 1..MaxThreads

\* A caller that is in neither depth() nor canny().
NoFrame == [pc |-> "idle"]

Init ==
    /\ call = Idle
    /\ result = NoResult
    /\ pipelines = <<>>
    /\ dpt_pipe = None
    /\ heap = <<>>
    /\ threads = [t \in Threads |-> NoFrame]

\* The caller takes the result; the next call starts from scratch.
Return ==
    /\ call.op # "idle"
    /\ result.status # "running"
    /\ UNCHANGED objects
    /\ call' = Idle
    /\ result' = NoResult

(***************************************************************************)
(* A state dict with one key is loaded into a model of class cls: the       *)
(* table's patterns are matched against the key.                            *)
(***************************************************************************)
PrefixKey(cls, key) ==
    /\ call.op = "idle"
    /\ UNCHANGED objects
    /\ call' = [op |-> "prefix_keys", cls |-> cls, key |-> key]
    /\ result' = [status |-> "ok", prefixes |-> MatchingPrefixes(cls, key)]

NextPrefix ==
    \/ /\ call.op = "idle"
       /\ \E cls \in ControlNetClasses \cup ControlNetXLClasses :
             \E key \in FragKeys(MaxFrags) : PrefixKey(cls, key)
    \/ Return

SpecPrefix == Init /\ [][NextPrefix]_vars

(***************************************************************************)
(* The renaming rules applied to one key: in dict order, a second time, and *)
(* in every other order.                                                    *)
(***************************************************************************)
ReplaceKey(key) ==
    LET rules == replace_keys_in_state_dict
        once  == ApplyRules(rules, DictOrder(rules), key)
    IN  /\ call.op = "idle"
        /\ UNCHANGED objects
        /\ call' = [op |-> "replace_keys", key |-> key]
        /\ result' =
              [status  |-> "ok",
               renamed |-> once,
               twice   |-> ApplyRules(rules, DictOrder(rules), once),
               anyOrder |-> {ApplyRules(rules, p, key) :
                                p \in Perms(Len(rules))}]

NextReplace ==
    \/ /\ call.op = "idle"
       /\ \E key \in RenameKeys : ReplaceKey(key)
    \/ Return

SpecReplace == Init /\ [][NextReplace]_vars


(***************************************************************************)
(* generate of the six ControlNet / ControlNetXL classes, statement by      *)
(* statement.  The model object's sub-modules are object identities; a      *)
(* text encoder's output and a pipeline's output are records of what they   *)
(* were computed from.                                                      *)
(***************************************************************************)

\* The sub-modules __init__ builds (self.text2 exists in the XL classes only).
Modules(cls) ==
    IF cls \in ControlNetXLClasses
    THEN {"vae", "text", "text2", "unet", "controlnet", "scheduler"}
    ELSE {"vae", "text", "unet", "controlnet", "scheduler"}

NewModel(cls, seed) ==
    [cls |-> cls, seed |-> seed,
     modules |-> [m \in Modules(cls) |-> <<cls, m>>]]

\* The library pipeline class each generate builds.
PipelineClass(cls) ==
    CASE cls = "ControlNetForText2ImageGeneration" ->
            "StableDiffusionControlNetPipeline"
      [] cls = "ControlNetForImage2ImageGeneration" ->
            "StableDiffusionControlNetImg2ImgPipeline"
      [] cls = "ControlNetForImageInpainting" ->
            "StableDiffusionControlNetInpaintPipeline"
      [] cls = "ControlNetXLForText2ImageGeneration" ->
            "StableDiffusionXLControlNetPipeline"
      [] cls = "ControlNetXLForImage2ImageGeneration" ->
            "StableDiffusionXLControlNetImg2ImgPipeline"
      [] cls = "ControlNetXLForImageInpainting" ->
            "StableDiffusionXLControlNetInpaintPipeline"

\* A slip in the statement order: the pipeline is built and invoked before
\* the negative prompt is encoded.
GenerateStatementsEarlyInvoke(cls) ==
    IF cls \in ControlNetXLClasses
    THEN <<"text_pos", "text2_pos", "build", "progress_bar", "invoke",
           "text_neg", "text2_neg", "concat", "return">>
    ELSE <<"text_pos", "build", "progress_bar", "invoke", "text_neg",
           "return">>

\* The statements of generate in source order.
GenerateStatements(cls) ==
    IF cls \in ControlNetXLClasses
    THEN <<"text_pos", "text_neg", "text2_pos", "text2_neg", "build",
           "progress_bar", "concat", "invoke", "return">>
    ELSE <<"text_pos", "text_neg", "build", "progress_bar", "invoke",
           "return">>

\* The local variables a text-encoder statement assigns.
EncoderOf(stmt) == IF stmt \in {"text_pos", "text_neg"} THEN "text" ELSE "text2"

IdsOf(stmt) ==
    CASE stmt = "text_pos"  -> "input_ids"
      [] stmt = "text_neg"  -> "negative_input_ids"
      [] stmt = "text2_pos" -> "input2_ids"
      [] stmt = "text2_neg" -> "negative_input2_ids"

MaskOf(stmt) ==
    CASE stmt = "text_pos"  -> "attention_mask"
      [] stmt = "text_neg"  -> "negative_attention_mask"
      [] stmt = "text2_pos" -> "attention2_mask"
      [] stmt = "text2_neg" -> "negative_attention2_mask"

EncoderStatements(cls) ==
    IF cls \in ControlNetXLClasses
    THEN {"text_pos", "text_neg", "text2_pos", "text2_neg"}
    ELSE {"text_pos", "text_neg"}

\* The arguments of a generate call.
GenerateArgNames(cls) ==
    {IdsOf(st) : st \in EncoderStatements(cls)}
        \cup {MaskOf(st) : st \in EncoderStatements(cls)}

GenerateArgs(cls) ==
    {a \in [GenerateArgNames(cls) -> {None, Tensor("t1"), Tensor("t2")}] :
        /\ \A st \in EncoderStatements(cls) :
              /\ a[IdsOf(st)] = (IF st \in {"text_pos", "text2_pos"}
                                 THEN Tensor("t1") ELSE Tensor("t2"))
              /\ a[MaskOf(st)] \in {None, a[IdsOf(st)]}}

Undefined == [undefined |-> TRUE]

\* self.text(ids, mask) or self.text2(ids, mask, output_hidden_states=True).
Encode(model, stmt, args) ==
    [undefined |-> FALSE,
     encoder |-> model.modules[EncoderOf(stmt)],
     ids     |-> args[IdsOf(stmt)],
     mask    |-> args[MaskOf(stmt)]]

GenerateCall(cls, seed, args) ==
    /\ call.op = "idle"
    /\ UNCHANGED objects
    /\ call' = [op |-> "generate", cls |-> cls, args |-> args,
                model |-> NewModel(cls, seed)]
    /\ result' = [status |-> "running", pc |-> 1,
                  model |-> NewModel(cls, seed),
                  outputs |-> [st \in EncoderStatements(cls) |-> Undefined],
                  concatenated |-> FALSE,
                  pipelines |-> <<>>,
                  invocations |-> <<>>,
                  returned |-> 0]

Statement == GenerateStatements(call.cls)[result.pc]

Running == call.op = "generate" /\ result.status = "running"

\* prompt_outputs = self.text(...), and the three alike.
GenEncode ==
    /\ Running
    /\ Statement \in EncoderStatements(call.cls)
    /\ result' = [result EXCEPT
                    !.pc = @ + 1,
                    !.outputs[Statement] =
                        Encode(result.model, Statement, call.args)]
    /\ UNCHANGED <<call, objects>>

\* pipeline = StableDiffusion...Pipeline(vae=self.vae, ...)
GenBuildPipeline ==
    /\ Running
    /\ Statement = "build"
    /\ result' = [result EXCEPT
                    !.pc = @ + 1,
                    !.pipelines = Append(@,
                        [cls |-> PipelineClass(call.cls),
                         parts |-> result.model.modules,
                         progress_bar |-> TRUE])]
    /\ UNCHANGED <<call, objects>>

\* pipeline.set_progress_bar_config(disable=True)
GenProgressBar ==
    /\ Running
    /\ Statement = "progress_bar"
    /\ result' = [result EXCEPT
                    !.pc = @ + 1,
                    !.pipelines[Len(result.pipelines)].progress_bar = FALSE]
    /\ UNCHANGED <<call, objects>>

\* prompt_embeds = torch.concat([prompt_embeds, prompt2_embeds], dim=-1), ...
GenConcat ==
    /\ Running
    /\ Statement = "concat"
    /\ result' = [result EXCEPT
                    !.pc = @ + 1,
                    !.status = IF \E st \in DOMAIN result.outputs :
                                     result.outputs[st].undefined
                               THEN "error" ELSE "running",
                    !.concatenated = TRUE]
    /\ UNCHANGED <<call, objects>>

\* images = pipeline(..., generator=...manual_seed(self.seed), ...).images
GenInvoke ==
    /\ Running
    /\ Statement = "invoke"
    /\ LET missing == \E st \in DOMAIN result.outputs :
                          result.outputs[st].undefined
       IN  result' = [result EXCEPT
                        !.pc = @ + 1,
                        !.status = IF missing THEN "error" ELSE "running",
                        !.invocations =
                            IF missing THEN @
                            ELSE Append(@,
                                   [pipeline |-> Len(result.pipelines),
                                    embeds |-> result.outputs,
                                    seed |-> result.model.seed])]
    /\ UNCHANGED <<call, objects>>

\* return GenericOutputs(images=torch.from_numpy(images))
GenReturn ==
    /\ Running
    /\ Statement = "return"
    /\ result' = [result EXCEPT
                    !.status = "ok",
                    !.returned = Len(result.invocations)]
    /\ UNCHANGED <<call, objects>>

NextGenerate ==
    \/ /\ call.op = "idle"
       /\ \E cls \in ControlNetClasses \cup ControlNetXLClasses :
             \E seed \in {1123, 7} :
                \E args \in GenerateArgs(cls) : GenerateCall(cls, seed, args)
    \/ GenEncode
    \/ GenBuildPipeline
    \/ GenProgressBar
    \/ GenConcat
    \/ GenInvoke
    \/ GenReturn
    \/ Return

SpecGenerate == Init /\ [][NextGenerate]_vars

(***************************************************************************)
(* Configuration resolution.  A configuration is a function from the        *)
(* options the user has set in the class's section to their values; a       *)
(* registry is a dict whose keys are key paths.                             *)
(***************************************************************************)
\* config.getoption(name, default)
getoption(config, name, default) ==
    IF name \in DOMAIN config THEN config[name] ELSE default

\* unitorch.utils.pop_value(*args, check_none=True): the first argument that
\* is not None; with none, an error if check_none and None otherwise.
pop_value(args, check_none) ==
    IF \E i \in 1..Len(args) : args[i] # None
    THEN args[CHOOSE i \in 1..Len(args) :
                 /\ args[i] # None
                 /\ \A j \in 1..(i - 1) : args[j] = None]
    ELSE IF check_none THEN Raised ELSE None

\* unitorch.utils.nested_dict_value(d, *keys): the value or sub-dict at the
\* key path, None when d is no dict or holds no such path.
nested_dict_value(d, keys) ==
    IF d.kind # "dict" THEN None
    ELSE IF keys \in DOMAIN d.items THEN d.items[keys]
    ELSE LET under == {q \in DOMAIN d.items :
                          /\ Len(q) > Len(keys)
                          /\ SubSeq(q, 1, Len(keys)) = keys}
         IN  IF under = {} THEN None
             ELSE Dict([r \in {SubSeq(q, Len(keys) + 1, Len(q)) : q \in under}
                           |-> d.items[keys \o r]])

\* unitorch.cli.cached_path(path): the local copy of a file or URL.
cached_path(v) == [kind |-> "cached", of |-> v]

\* pop_value(option, registered) with check_none=False: the caller forgot
\* that a required path must be checked.
ResolvePathUnchecked(user, registered) ==
    pop_value(<<user, registered>>, FALSE)

\* pop_value(registered, option): the arguments in the wrong order.
ResolvePathRegistryFirst(user, registered) ==
    pop_value(<<registered, user>>, TRUE)

\* path = pop_value(path, nested_dict_value(infos, ...)) of a required path.
ResolvePath(user, registered) == pop_value(<<user, registered>>, TRUE)

\* pop_value(weight, registered) with the default check_none=True.
ResolveWeightChecked(user, registered) ==
    pop_value(<<user, registered>>, TRUE)

\* weight_path = pop_value(pretrained_weight_path, ..., check_none=False)
ResolveWeight(user, registered) == pop_value(<<user, registered>>, FALSE)

\* The configurations that set some of the options of choices, a sequence of
\* <<option, values>>.
RECURSIVE Configs(_)
Configs(choices) ==
    IF choices = <<>> THEN {<<>>}
    ELSE LET rest == Configs(Tail(choices))
         IN  rest \cup {(Head(choices)[1] :> v) @@ c :
                           c \in rest, v \in Head(choices)[2]}

UserPath(option) == Str(<<"user", option>>)

\* What a from_core_configure did: the constructor's arguments if it was
\* called, the arguments of every from_pretrained call, and the events in
\* the order they happened.
Outcome(status, events, ctor, loaded) ==
    [status |-> status, events |-> events, ctor |-> ctor, loaded |-> loaded]

Failed(events, ctor) == Outcome("error", events, ctor, <<>>)

\* The arguments of one from_pretrained call.
FromPretrained(weight_path, state_dict) ==
    [weight_path |-> weight_path, state_dict |-> state_dict]

Constructed(outcome) == \E i \in 1..Len(outcome.events) :
                            outcome.events[i] = "construct"

(***************************************************************************)
(* The five SigLIP models of cli/models/siglip/modeling.py.                 *)
(***************************************************************************)
SiglipClasses ==
    {"SiglipForPretrain", "SiglipForClassification",
     "SiglipForTextClassification", "SiglipForImageClassification",
     "SiglipForMatching"}

SiglipDefaultName == "siglip-base-patch16-224"

\* pretrained_siglip_infos: the registry entry of the default name, with or
\* without a weight.
pretrained_siglip_infos(with_weight) ==
    Dict((<<SiglipDefaultName, "config">>
              :> Str(<<"hub", SiglipDefaultName, "config">>))
         @@ (IF with_weight
             THEN <<SiglipDefaultName, "weight">>
                      :> Str(<<"hub", SiglipDefaultName, "weight">>)
             ELSE <<>>))

\* The option each class reads for freeze_base_model.
SiglipFreezeOption(cls) ==
    IF cls = "SiglipForTextClassification"
    THEN "freeze_base_Truemodel"
    ELSE "freeze_base_model"

\* The keyword arguments of cls(...) besides config_path.
SiglipCtorOptions(cls, config) ==
    ("freeze_base_model"
         :> getoption(config, SiglipFreezeOption(cls), Bool(TRUE)))
    @@ ("gradient_checkpointing"
         :> getoption(config, "gradient_checkpointing", Bool(FALSE)))
    @@ (IF cls = "SiglipForPretrain"
        THEN "use_all_gather" :> getoption(config, "use_all_gather", Bool(TRUE))
        ELSE IF cls = "SiglipForMatching" THEN <<>>
        ELSE "num_classes" :> getoption(config, "num_classes", Number(1)))

SiglipFromCoreConfigure(cls, config, infos) ==
    LET pretrained_name ==
            getoption(config, "pretrained_name", Str(<<SiglipDefaultName>>))
        name == pretrained_name.path[1]
        config_path ==
            ResolvePath(getoption(config, "config_path", None),
                        nested_dict_value(infos, <<name, "config">>))
        ctor == ("config_path" :> cached_path(config_path))
                    @@ SiglipCtorOptions(cls, config)
        weight_path ==
            ResolveWeight(getoption(config, "pretrained_weight_path", None),
                          nested_dict_value(infos, <<name, "weight">>))
    IN  IF config_path = Raised THEN Failed(<<>>, <<>>)
        ELSE IF weight_path = Raised THEN Failed(<<"construct">>, ctor)
        ELSE IF weight_path # None
        THEN Outcome("ok", <<"construct", "from_pretrained">>, ctor,
                     <<FromPretrained(weight_path, None)>>)
        ELSE Outcome("ok", <<"construct">>, ctor, <<>>)

SiglipConfigs ==
    Configs(<< <<"pretrained_name", {Str(<<"unregistered-name">>)}>>,
               <<"config_path", {UserPath("config_path")}>>,
               <<"pretrained_weight_path",
                 {UserPath("pretrained_weight_path")}>>,
               <<"freeze_base_model", {Bool(TRUE), Bool(FALSE)}>>,
               <<"gradient_checkpointing", {Bool(TRUE)}>> >>)

ConfigureSiglip(cls, config, infos) ==
    /\ call.op = "idle"
    /\ UNCHANGED objects
    /\ call' = [op |-> "from_core_configure", cls |-> cls,
                config |-> config, infos |-> infos]
    /\ result' = SiglipFromCoreConfigure(cls, config, infos)

(***************************************************************************)
(* T5Processor.from_core_configure returns the constructor's arguments;     *)
(* the decorator add_default_section_for_init calls the constructor.        *)
(***************************************************************************)
T5DefaultName == "default-t5"

pretrained_t5_infos ==
    Dict(<<T5DefaultName, "vocab">> :> Str(<<"hub", T5DefaultName, "vocab">>))

\* The decorator, given what from_core_configure returned.
add_default_section_for_init(returned) ==
    IF returned = Raised THEN Failed(<<>>, <<>>)
    ELSE Outcome("ok", <<"construct">>, returned, <<>>)

T5FromCoreConfigure(config, infos) ==
    LET pretrained_name ==
            getoption(config, "pretrained_name", Str(<<T5DefaultName>>))
        vocab_path ==
            ResolvePath(getoption(config, "vocab_path", None),
                        nested_dict_value(infos, <<pretrained_name.path[1],
                                                   "vocab">>))
    IN  IF vocab_path = Raised THEN Raised
        ELSE "vocab_path" :> cached_path(vocab_path)

T5Configs ==
    Configs(<< <<"pretrained_name", {Str(<<"unregistered-name">>)}>>,
               <<"vocab_path", {UserPath("vocab_path")}>> >>)

ConfigureT5(config) ==
    /\ call.op = "idle"
    /\ UNCHANGED objects
    /\ call' = [op |-> "from_core_configure", cls |-> "T5Processor",
                config |-> config, infos |-> pretrained_t5_infos]
    /\ result' = add_default_section_for_init(
                     T5FromCoreConfigure(config, pretrained_t5_infos))

(***************************************************************************)
(* load_weight of unitorch.cli.models.diffusers: the keys of a weight file, *)
(* each prefixed by the first  prefix_keys pattern that matches it and then  *)
(* renamed by every replace_keys rule.                                      *)
(***************************************************************************)
\* The keys every weight file holds (the same in every file, so that only
\* the prefixes can tell two components' keys apart).
RawWeightKeys ==
    {<<"c","o","n","v","_","i","n",".","w","e","i","g","h","t">>, <<"a","t","t","n",".","t","o","_","k",".","w","e","i","g","h","t">>, <<"a","t","t","n",".","t","o","_","o","u","t",".","0",".","b","i","a","s">>,
     <<"2",".","t","o","_","q","_","p","r","o","j">>}

FileExists(path) ==
    /\ path.kind = "str"
    /\ path.path[1] \in {"hub", "user"}

PrefixFirstMatch(prefix_keys, key) ==
    IF \E i \in 1..Len(prefix_keys) : re_match(prefix_keys[i].pattern, key)
    THEN prefix_keys[CHOOSE i \in 1..Len(prefix_keys) :
             /\ re_match(prefix_keys[i].pattern, key)
             /\ \A j \in 1..(i - 1) : ~re_match(prefix_keys[j].pattern, key)
         ].prefix \o key
    ELSE key

load_weight(path, prefix_keys, replace_keys) ==
    IF ~FileExists(path) THEN Raised
    ELSE [kind |-> "state_dict",
          file |-> path,
          keys |-> {[raw |-> k,
                     key |-> ApplyRules(replace_keys,
                                 [i \in 1..Len(replace_keys) |-> i],
                                 PrefixFirstMatch(prefix_keys, k))] :
                        k \in RawWeightKeys}]

\* prefix_keys={"": prefix}
EveryKey(prefix) == << [pattern |-> <<>>, prefix |-> prefix] >>

\* The configurations that set the path options of one of the allowed sets.
UserPathConfigs(options) ==
    {[o \in S |-> UserPath(o)] :
        S \in {T \in SUBSET options :
                  \/ Cardinality(T) <= MaxUserPaths
                  \/ Cardinality(options \ T) <= MaxUserPaths}}

(***************************************************************************)
(* The three ControlNetXL LoRA models of                                    *)
(* cli/models/peft/diffusers/modeling_controlnet_xl.py; their               *)
(* from_core_configure methods differ in the section name only.             *)
(***************************************************************************)
LoraClasses ==
    {"ControlNetXLLoraForText2ImageGeneration",
     "ControlNetXLLoraForImage2ImageGeneration",
     "ControlNetXLLoraForImageInpainting"}

StableDefaultName == "stable-xl-base"
ControlNetDefaultName == "stable-xl-controlnet-canny"

RegistryEntry(name, keypaths) ==
    [q \in {<<name>> \o k : k \in keypaths} |-> Str(<<"hub">> \o q)]

pretrained_stable_infos ==
    Dict(RegistryEntry(StableDefaultName,
            {<<"unet", "config">>, <<"unet", "weight">>,
             <<"text", "config">>, <<"text", "weight">>,
             <<"text2", "config">>, <<"text2", "weight">>,
             <<"vae", "config">>, <<"vae", "weight">>,
             <<"scheduler">>}))

pretrained_stable_extensions_infos ==
    Dict(RegistryEntry(ControlNetDefaultName,
            {<<"controlnet", "config">>, <<"controlnet", "weight">>}))

LoraPathOptions ==
    {"config_path", "text_config_path", "text2_config_path",
     "vae_config_path", "controlnet_configs_path", "scheduler_config_path"}

\* The registry key path each path option falls back to.
LoraRegistryKeys(option) ==
    CASE option = "config_path"             -> <<"unet", "config">>
      [] option = "text_config_path"        -> <<"text", "config">>
      [] option = "text2_config_path"       -> <<"text2", "config">>
      [] option = "vae_config_path"         -> <<"vae", "config">>
      [] option = "controlnet_configs_path" -> <<"controlnet", "config">>
      [] option = "scheduler_config_path"   -> <<"scheduler">>

\* The components of the default state-dict list, in the order of the list.
LoraComponents == <<"unet", "text", "text2", "vae", "controlnet">>

\* A copy-paste slip: the second text encoder loaded with the first's prefix.
LoraPrefixSlip(component) ==
    CASE component = "unet"       -> <<"u","n","e","t",".">>
      [] component = "text"       -> <<"t","e","x","t",".">>
      [] component = "text2"      -> <<"t","e","x","t",".">>
      [] component = "vae"        -> <<"v","a","e",".">>
      [] component = "controlnet" -> <<"c","o","n","t","r","o","l","n","e","t",".">>

\* prefix_keys={"": ...} of each load_weight of the default branch.
LoraPrefix(component) ==
    CASE component = "unet"       -> <<"u","n","e","t",".">>
      [] component = "text"       -> <<"t","e","x","t",".">>
      [] component = "text2"      -> <<"t","e","x","t","2",".">>
      [] component = "vae"        -> <<"v","a","e",".">>
      [] component = "controlnet" -> <<"c","o","n","t","r","o","l","n","e","t",".">>

\* replace_keys of the UNet's load_weight; the dots are unescaped.
LoraBaseLayerKeys ==
    << [pattern |-> <<"t","o","_","k">> \o <<"ANY">>, repl |-> <<"t","o","_","k",".","b","a","s","e","_","l","a","y","e","r",".">>],
       [pattern |-> <<"t","o","_","q">> \o <<"ANY">>, repl |-> <<"t","o","_","q",".","b","a","s","e","_","l","a","y","e","r",".">>],
       [pattern |-> <<"t","o","_","v">> \o <<"ANY">>, repl |-> <<"t","o","_","v",".","b","a","s","e","_","l","a","y","e","r",".">>],
       [pattern |-> <<"t","o","_","o","u","t">> \o <<"ANY", "0", "ANY">>,
        repl |-> <<"t","o","_","o","u","t",".","0",".","b","a","s","e","_","l","a","y","e","r",".">>] >>

\* A slip: the base_layer renames requested for the ControlNet as well.
LoraReplaceKeysSlip(component) ==
    IF component \in {"unet", "controlnet"} THEN LoraBaseLayerKeys ELSE <<>>

\* replace_keys of each load_weight of the default branch.
LoraReplaceKeys(component) ==
    IF component = "unet" THEN LoraBaseLayerKeys ELSE <<>>

\* state_dict = [load_weight(...), ...] of the default branch.
LoraDefaultStateDict(pretrained_infos, pretrained_controlnet_infos) ==
    [i \in 1..Len(LoraComponents) |->
        LET component == LoraComponents[i]
            infos == IF component = "controlnet"
                     THEN pretrained_controlnet_infos
                     ELSE pretrained_infos
        IN  load_weight(nested_dict_value(infos, <<component, "weight">>),
                        EveryKey(LoraPrefix(component)),
                        LoraReplaceKeys(component))]

AnyRaised(values) == \E i \in DOMAIN values : values[i] = Raised

LoraFromCoreConfigure(cls, config) ==
    LET pretrained_name ==
            getoption(config, "pretrained_name", Str(<<StableDefaultName>>))
        pretrained_infos ==
            nested_dict_value(pretrained_stable_infos,
                              <<pretrained_name.path[1]>>)
        pretrained_controlnet_name ==
            getoption(config, "pretrained_controlnet_name",
                      Str(<<ControlNetDefaultName>>))
        pretrained_controlnet_infos ==
            nested_dict_value(pretrained_stable_extensions_infos,
                              <<pretrained_controlnet_name.path[1]>>)
        resolved ==
            [o \in LoraPathOptions |->
                ResolvePath(getoption(config, o, None),
                    nested_dict_value(
                        IF o = "controlnet_configs_path"
                        THEN pretrained_controlnet_infos
                        ELSE pretrained_infos,
                        LoraRegistryKeys(o)))]
        quant_config_path == getoption(config, "quant_config_path", None)
        ctor == [o \in LoraPathOptions |-> cached_path(resolved[o])]
                  @@ ("quant_config_path" :>
                        IF quant_config_path # None
                        THEN cached_path(quant_config_path) ELSE None)
                  @@ ("lora_r" :> getoption(config, "lora_r", Number(16)))
                  @@ ("seed" :> getoption(config, "seed", Number(1123)))
        weight_path == getoption(config, "pretrained_weight_path", None)
        defaults ==
            LoraDefaultStateDict(pretrained_infos, pretrained_controlnet_infos)
        state_dict ==
            IF weight_path = None /\ pretrained_infos # None
            THEN IF AnyRaised(defaults) THEN Raised ELSE List(defaults)
            ELSE IF weight_path # None
            THEN load_weight(weight_path, <<>>, <<>>)
            ELSE None
        pretrained_lora_weight_path ==
            getoption(config, "pretrained_lora_weight_path", None)
        lora_state_dict == load_weight(pretrained_lora_weight_path, <<>>, <<>>)
        \* state_dict.append(lora_state_dict): a list has append, the dict
        \* that load_weight(weight_path) returns has none.
        final ==
            IF pretrained_lora_weight_path = None THEN state_dict
            ELSE IF lora_state_dict = Raised THEN Raised
            ELSE IF state_dict = None THEN lora_state_dict
            ELSE IF state_dict.kind = "list"
            THEN List(Append(state_dict.items, lora_state_dict))
            ELSE Raised
    IN  IF AnyRaised(resolved) THEN Failed(<<>>, <<>>)
        ELSE IF state_dict = Raised \/ final = Raised
        THEN Failed(<<"construct">>, ctor)
        ELSE IF final # None
        THEN Outcome("ok", <<"construct", "from_pretrained">>, ctor,
                     <<FromPretrained(None, final)>>)
        ELSE Outcome("ok", <<"construct">>, ctor, <<>>)

LoraConfigs ==
    {paths @@ c :
        paths \in UserPathConfigs(LoraPathOptions),
        c \in Configs(<<
            <<"pretrained_name", {Str(<<"unregistered-name">>)}>>,
            <<"pretrained_controlnet_name", {Str(<<"unregistered-name">>)}>>,
            <<"quant_config_path", {UserPath("quant_config_path")}>>,
            <<"pretrained_weight_path", {UserPath("pretrained_weight_path")}>>,
            <<"pretrained_lora_weight_path",
              {UserPath("pretrained_lora_weight_path")}>> >>)}

ConfigureLora(cls, config) ==
    /\ call.op = "idle"
    /\ UNCHANGED objects
    /\ call' = [op |-> "from_core_configure", cls |-> cls,
                config |-> config, infos |-> pretrained_stable_infos]
    /\ result' = LoraFromCoreConfigure(cls, config)

(***************************************************************************)
(* MultiControlNetXLForImageInpaintingPipeline of                           *)
(* cli/pipelines/multicontrolnet_xl/inpainting.py.                          *)
(***************************************************************************)
PipelineClassName == "MultiControlNetXLForImageInpaintingPipeline"

PipelineDefaultName == "stable-v1.5-multicontrolnet_xl-canny-depth"

\* pretrained_diffusers_infos: the entry of the default name; its controlnet
\* config and weight are a list of paths or one path string.
pretrained_diffusers_infos(controlnets_as_list) ==
    LET paths(field) ==
            IF controlnets_as_list
            THEN List(<<Str(<<"hub", "canny", field>>),
                        Str(<<"hub", "depth", field>>)>>)
            ELSE Str(<<"hub", "canny", field>>)
    IN  Dict(RegistryEntry(PipelineDefaultName,
                {<<"unet", "config">>, <<"unet", "weight">>,
                 <<"text", "config">>, <<"text", "weight">>,
                 <<"text", "vocab">>, <<"text", "merge">>,
                 <<"text2", "config">>, <<"text2", "weight">>,
                 <<"text2", "vocab">>, <<"text2", "merge">>,
                 <<"vae", "config">>, <<"vae", "weight">>,
                 <<"scheduler">>})
             @@ (<<PipelineDefaultName, "controlnet", "config">>
                    :> paths("config"))
             @@ (<<PipelineDefaultName, "controlnet", "weight">>
                    :> paths("weight")))

PipelinePathOptions ==
    {"config_path", "text_config_path", "text2_config_path",
     "vae_config_path", "controlnet_configs_path", "scheduler_config_path",
     "vocab1_path", "merge1_path", "vocab2_path", "merge2_path"}

PipelineRegistryKeys(option) ==
    CASE option = "config_path"             -> <<"unet", "config">>
      [] option = "text_config_path"        -> <<"text", "config">>
      [] option = "text2_config_path"       -> <<"text2", "config">>
      [] option = "vae_config_path"         -> <<"vae", "config">>
      [] option = "controlnet_configs_path" -> <<"controlnet", "config">>
      [] option = "scheduler_config_path"   -> <<"scheduler">>
      [] option = "vocab1_path"             -> <<"text", "vocab">>
      [] option = "merge1_path"             -> <<"text", "merge">>
      [] option = "vocab2_path"             -> <<"text2", "vocab">>
      [] option = "merge2_path"             -> <<"text2", "merge">>

\* isinstance(controlnet_configs_path, str): a string is wrapped in a list
\* as it is, the elements of a list go through cached_path.
PipelineControlNetConfigs(value) ==
    IF value.kind = "str" THEN List(<<value>>)
    ELSE List([i \in 1..Len(value.items) |-> cached_path(value.items[i])])

\* enumerate(controlnets): the elements of a list, the characters of a string
\* (a character is a path no file has).
Enumerate(value) ==
    IF value.kind = "list" THEN value.items
    ELSE [i \in 1..Len(value.path) |-> Str(<<value.path[i]>>)]

Digits == <<"0", "1", "2", "3", "4", "5", "6", "7", "8", "9">>

\* f"controlnet.nets.{i}." for i < 10
ControlNetPrefix(i) == <<"c","o","n","t","r","o","l","n","e","t",".","n","e","t","s",".">> \o <<Digits[i + 1], ".">>

PipelineComponents == <<"unet", "text", "text2", "vae">>

PipelineDefaultStateDict(pretrain_infos) ==
    LET controlnets ==
            Enumerate(nested_dict_value(pretrain_infos,
                                        <<"controlnet", "weight">>))
    IN  [i \in 1..Len(PipelineComponents) |->
            load_weight(nested_dict_value(pretrain_infos,
                            <<PipelineComponents[i], "weight">>),
                        EveryKey(LoraPrefix(PipelineComponents[i])), <<>>)]
        \o [i \in 1..Len(controlnets) |->
               load_weight(controlnets[i],
                           EveryKey(ControlNetPrefix(i - 1)), <<>>)]

\* A slip in the statement order: the weights loaded after the placement.
PipelineInitLoadsLast(ctor, xformers_available) ==
    LET device == IF ctor["device"] = Str(<<"cpu">>)
                  THEN "cpu" ELSE "gpu"
        offload == ctor["enable_cpu_offload"].b /\ device # "cpu"
        xformers == ctor["enable_xformers"].b /\ device # "cpu"
        events == <<"construct", "eval">>
                    \o (IF offload THEN <<"enable_model_cpu_offload", "half">>
                        ELSE <<"to_device">>)
                    \o <<"from_pretrained">>
        loaded == <<FromPretrained(ctor["weight_path"], ctor["state_dict"])>>
    IN  IF xformers /\ ~xformers_available
        THEN Outcome("error", events, ctor, loaded)
        ELSE Outcome("ok",
                     events \o (IF xformers THEN <<"enable_xformers">>
                                ELSE <<>>),
                     ctor, loaded)

\* A slip in the placement: enable_cpu_offload obeyed on the CPU as well.
PipelineInitOffloadsOnCpu(ctor, xformers_available) ==
    LET device == IF ctor["device"] = Str(<<"cpu">>)
                  THEN "cpu" ELSE "gpu"
        offload == ctor["enable_cpu_offload"].b
        xformers == ctor["enable_xformers"].b /\ device # "cpu"
        events == <<"construct", "from_pretrained", "eval">>
                    \o (IF offload THEN <<"enable_model_cpu_offload", "half">>
                        ELSE <<"to_device">>)
        loaded == <<FromPretrained(ctor["weight_path"], ctor["state_dict"])>>
    IN  IF xformers /\ ~xformers_available
        THEN Outcome("error", events, ctor, loaded)
        ELSE Outcome("ok",
                     events \o (IF xformers THEN <<"enable_xformers">>
                                ELSE <<>>),
                     ctor, loaded)

\* __init__: what happens after super().__init__ and the processor are
\* built, in order.
PipelineInit(ctor, xformers_available) ==
    LET device == IF ctor["device"] = Str(<<"cpu">>)
                  THEN "cpu" ELSE "gpu"
        offload == ctor["enable_cpu_offload"].b /\ device # "cpu"
        xformers == ctor["enable_xformers"].b /\ device # "cpu"
        events == <<"construct", "from_pretrained", "eval">>
                    \o (IF offload THEN <<"enable_model_cpu_offload", "half">>
                        ELSE <<"to_device">>)
        loaded == <<FromPretrained(ctor["weight_path"], ctor["state_dict"])>>
    IN  IF xformers /\ ~xformers_available
        THEN Outcome("error", events, ctor, loaded)
        ELSE Outcome("ok",
                     events \o (IF xformers THEN <<"enable_xformers">>
                                ELSE <<>>),
                     ctor, loaded)

PipelineFromCoreConfigure(config, infos, xformers_available) ==
    LET pretrained_name ==
            getoption(config, "pretrained_name", Str(<<PipelineDefaultName>>))
        pretrain_infos ==
            nested_dict_value(infos, <<pretrained_name.path[1]>>)
        resolved ==
            [o \in PipelinePathOptions |->
                ResolvePath(getoption(config, o, None),
                    nested_dict_value(pretrain_infos,
                                      PipelineRegistryKeys(o)))]
        quant_config_path == getoption(config, "quant_config_path", None)
        weight_path == getoption(config, "pretrained_weight_path", None)
        defaults == PipelineDefaultStateDict(pretrain_infos)
        state_dict ==
            IF weight_path = None /\ pretrain_infos # None
            THEN IF AnyRaised(defaults) THEN Raised ELSE List(defaults)
            ELSE None
        ctor == [o \in PipelinePathOptions |->
                    IF o = "controlnet_configs_path"
                    THEN PipelineControlNetConfigs(resolved[o])
                    ELSE cached_path(resolved[o])]
                  @@ ("quant_config_path" :>
                        IF quant_config_path # None
                        THEN cached_path(quant_config_path) ELSE None)
                  @@ ("max_seq_length" :>
                        getoption(config, "max_seq_length", Number(77)))
                  @@ ("weight_path" :> weight_path)
                  @@ ("state_dict" :> state_dict)
                  @@ ("device" :> getoption(config, "device", Str(<<"cpu">>)))
                  @@ ("enable_cpu_offload" :>
                        getoption(config, "enable_cpu_offload", Bool(TRUE)))
                  @@ ("enable_xformers" :>
                        getoption(config, "enable_xformers", Bool(TRUE)))
    IN  IF AnyRaised(resolved) \/ state_dict = Raised
        THEN Failed(<<>>, <<>>)
        ELSE PipelineInit(ctor, xformers_available)

PipelineConfigs ==
    {paths @@ c :
        paths \in
            UserPathConfigs(PipelinePathOptions)
            \cup {("controlnet_configs_path" :>
                      List(<<UserPath("canny"), UserPath("depth")>>)) @@ u :
                    u \in {v \in UserPathConfigs(PipelinePathOptions) :
                              "controlnet_configs_path" \in DOMAIN v}},
        c \in Configs(<<
            <<"pretrained_name", {Str(<<"unregistered-name">>)}>>,
            <<"quant_config_path", {UserPath("quant_config_path")}>>,
            <<"pretrained_weight_path", {UserPath("pretrained_weight_path")}>>,
            <<"device", {Number(0)}>>,
            <<"enable_cpu_offload", {Bool(FALSE)}>>,
            <<"enable_xformers", {Bool(FALSE)}>> >>)}

ConfigurePipeline(config, infos, xformers_available) ==
    /\ call.op = "idle"
    /\ UNCHANGED objects
    /\ call' = [op |-> "from_core_configure", cls |-> PipelineClassName,
                config |-> config, infos |-> infos,
                xformers_available |-> xformers_available]
    /\ result' = PipelineFromCoreConfigure(config, infos, xformers_available)

NextConfigure ==
    \/ /\ call.op = "idle"
       /\ \E cls \in SiglipClasses :
             \E config \in SiglipConfigs :
                \E with_weight \in BOOLEAN :
                   ConfigureSiglip(cls, config,
                                   pretrained_siglip_infos(with_weight))
    \/ /\ call.op = "idle"
       /\ \E config \in T5Configs : ConfigureT5(config)
    \/ /\ call.op = "idle"
       /\ \E cls \in LoraClasses :
             \E config \in LoraConfigs : ConfigureLora(cls, config)
    \/ /\ call.op = "idle"
       /\ \E config \in PipelineConfigs :
             \E controlnets_as_list, xformers_available \in BOOLEAN :
                ConfigurePipeline(config,
                    pretrained_diffusers_infos(controlnets_as_list),
                    xformers_available)
    \/ Return

SpecConfigure == Init /\ [][NextConfigure]_vars

(***************************************************************************)
(* T5Processor._detokenize of cli/models/t5/processing.py.                  *)
(***************************************************************************)
\* A table: its number of rows and, per column name, the cells of the
\* column in row order.
Frame(rows, columns) == [kind |-> "frame", rows |-> rows, columns |-> columns]

Cell(column, row) == [kind |-> "cell", column |-> column, row |-> row]

NaN == [kind |-> "nan"]

Text(tokens) == [kind |-> "text", tokens |-> tokens]

PadToken == "<pad>"

Vocabulary == {PadToken, "a"}

\* GenerationOutputs.to_pandas(): the tabular form of the outputs.
to_pandas(outputs) == outputs.frame

\* The text generation processor's detokenize(sequences): one text per
\* sequence, in sequence order, special tokens skipped.
detokenize(sequences) ==
    [i \in 1..Len(sequences) |->
        Text(SelectSeq(sequences[i], LAMBDA t : t # PadToken))]

\* results[name] = values: a table of no rows takes the length of a
\* non-empty list and fills its other columns with NaN; otherwise the
\* lengths must agree.
setitem(results, name, values) ==
    IF results.rows = 0 /\ Len(values) > 0
    THEN Frame(Len(values),
               [c \in DOMAIN results.columns \cup {name} |->
                   IF c = name THEN values
                   ELSE [i \in 1..Len(values) |-> NaN]])
    ELSE IF results.rows # Len(values) THEN Raised
    ELSE Frame(results.rows,
               [c \in DOMAIN results.columns \cup {name} |->
                   IF c = name THEN values ELSE results.columns[c]])

\* The assertion with <= for ==.
DetokenizeAssertionSlip(results, outputs) ==
    results.rows = 0 \/ results.rows <= Len(outputs.sequences)

\* assert results.shape[0] == 0
\*     or results.shape[0] == outputs.sequences.shape[0]
DetokenizeAssertion(results, outputs) ==
    results.rows = 0 \/ results.rows = Len(outputs.sequences)

_detokenize(outputs) ==
    LET results == to_pandas(outputs)
        decoded == detokenize(outputs.sequences)
        written == setitem(results, "decoded", decoded)
    IN  IF ~DetokenizeAssertion(results, outputs)
        THEN [status |-> "error", events |-> <<"to_pandas", "assert">>,
              returned |-> Raised]
        ELSE IF written = Raised
        THEN [status |-> "error",
              events |-> <<"to_pandas", "assert", "detokenize", "setitem">>,
              returned |-> Raised]
        ELSE [status |-> "ok",
              events |-> <<"to_pandas", "assert", "detokenize", "setitem">>,
              returned |-> written]

ColumnNames == {"id", "query", "decoded"}

RECURSIVE Tensors(_)
\* The sequences tensors of n sequences of SeqLen tokens.
Tensors(n) ==
    IF n = 0 THEN {<<>>}
    ELSE {Append(t, row) : t \in Tensors(n - 1),
                           row \in [1..SeqLen -> Vocabulary]}

GenerationOutputsSet ==
    {[sequences |-> t,
      frame |-> Frame(rows, [c \in names |->
                                [i \in 1..rows |-> Cell(c, i)]])] :
        t \in UNION {Tensors(n) : n \in 0..MaxSeqs},
        rows \in 0..(MaxSeqs + 1),
        names \in SUBSET ColumnNames}

Detokenize(outputs) ==
    /\ call.op = "idle"
    /\ UNCHANGED objects
    /\ call' = [op |-> "detokenize", outputs |-> outputs]
    /\ result' = _detokenize(outputs)

NextDetokenize ==
    \/ /\ call.op = "idle"
       /\ \E outputs \in GenerationOutputsSet : Detokenize(outputs)
    \/ Return

SpecDetokenize == Init /\ [][NextDetokenize]_vars

(***************************************************************************)
(* ControlNetXLProcessor of models/diffusers/processing_controlnet_xl.py.   *)
(***************************************************************************)
\* The attributes __init__ assigns to self.
ProcessorInitAttributes ==
    {"text_processor1", "text_processor2", "vision_processor",
     "condition_vision_processor", "vae_image_processor",
     "vae_mask_image_processor", "vae_condition_image_processor"}

\* ControlNetXLProcessor(..., max_seq_length=..., pad_token1=..., ...)
ControlNetXLProcessor(max_seq_length) ==
    [attrs |-> ProcessorInitAttributes,
     max_seq_length |-> max_seq_length,
     pad_token1 |-> "<|endoftext|>",
     pad_token2 |-> "!"]

\* A PIL image and Image.open(path).
Image(id, mode) == [kind |-> "image", id |-> id, mode |-> mode]

ImageOpen(path) == Image(path.path, "RGBA")

convert(image, mode) == Image(image.id, mode)

\* if isinstance(image, str): image = Image.open(image)
\* image = image.convert(mode)
LoadImage(image, mode) ==
    convert(IF image.kind = "str" THEN ImageOpen(image) ELSE image, mode)

\* The result of a transform or an image processor applied to an image or
\* to a tensor.
Processed(by, of) == [kind |-> "tensor", by |-> by, of |-> of]

\* The attributes of self that text2image reads, in the order it reads them
\* when the image is centre-cropped and flipped.
Text2ImageAttributeReads ==
    <<"vision_resize", "center_crop", "image_size", "vision_crop",
      "vision_flip", "vision_processor", "condition_vision_processor",
      "text_processor1", "text_processor2">>

\* text2image: reading an attribute the object lacks raises AttributeError;
\* with all of them, original_size + crop_top_left + [image_size, image_size]
\* adds a list to a tuple, which raises TypeError.
text2image(self, args) ==
    LET reads == Text2ImageAttributeReads
        missing == {i \in 1..Len(reads) : reads[i] \notin self.attrs}
    IN  IF missing # {}
        THEN [status |-> "error", error |-> "AttributeError",
              at |-> reads[CHOOSE i \in missing : \A j \in missing : i <= j],
              returned |-> Raised]
        ELSE [status |-> "error", error |-> "TypeError",
              at |-> "add_time_ids", returned |-> Raised]

\* GenericOutputs(**fields)
GenericOutputs(fields) == [kind |-> "outputs", fields |-> fields]

\* GenericOutputs(**first, **rest): a keyword given twice is a TypeError.
GenericOutputsOf(first, rest) ==
    IF DOMAIN first \cap DOMAIN rest # {} THEN Raised
    ELSE GenericOutputs(first @@ rest)

\* HfTextClassificationProcessor.classification(text, max_seq_length): the
\* tokens of str(text) cut to max_seq_length - 2, between the begin and end
\* tokens, padded to max_seq_length; the mask marks what is no padding.
classification(self, which, text, max_seq_length) ==
    LET max_len == pop_value(<<max_seq_length, Number(self.max_seq_length)>>,
                             TRUE).n
        words == IF text = None THEN <<"None">> ELSE text.path
        kept == IF Len(words) <= max_len - 2 THEN words
                ELSE SubSeq(words, 1, max_len - 2)
        ids == <<"<|startoftext|>">> \o kept \o <<"<|endoftext|>">>
        pad == IF which = "text_processor1" THEN self.pad_token1
               ELSE self.pad_token2
    IN  [input_ids |->
            Processed(which,
                      ids \o [i \in 1..(max_len - Len(ids)) |-> pad]),
         attention_mask |->
            Processed(which,
                      [i \in 1..max_len |-> IF i <= Len(ids) THEN 1 ELSE 0])]

text2image_inputs(self, args) ==
    LET condition_image == LoadImage(args["condition_image"], "RGB")
        condition_pixel_values ==
            Processed("vae_condition_image_processor", condition_image)
        prompt_outputs ==
            classification(self, "text_processor1", args["prompt"],
                           args["max_seq_length"])
        prompt2_outputs ==
            classification(self, "text_processor2", args["prompt2"],
                           args["max_seq_length"])
        negative_prompt_outputs ==
            classification(self, "text_processor1", args["negative_prompt"],
                           args["max_seq_length"])
        negative_prompt2_outputs ==
            classification(self, "text_processor2", args["negative_prompt2"],
                           args["max_seq_length"])
    IN  GenericOutputs(
            [condition_pixel_values |-> condition_pixel_values,
             input_ids |-> prompt_outputs.input_ids,
             attention_mask |-> prompt_outputs.attention_mask,
             input2_ids |-> prompt2_outputs.input_ids,
             attention2_mask |-> prompt2_outputs.attention_mask,
             negative_input_ids |-> negative_prompt_outputs.input_ids,
             negative_attention_mask |->
                 negative_prompt_outputs.attention_mask,
             negative_input2_ids |-> negative_prompt2_outputs.input_ids,
             negative_attention2_mask |->
                 negative_prompt2_outputs.attention_mask])

TextInputsArgNames ==
    {"condition_image", "prompt", "prompt2", "negative_prompt",
     "negative_prompt2", "max_seq_length"}

\* A slip in the call: negative_prompt2=negative_prompt.
ForwardedArgsSlip(args) ==
    [a \in TextInputsArgNames |->
        IF a = "negative_prompt2" THEN args["negative_prompt"] ELSE args[a]]

\* self.text2image_inputs(condition_image=condition_image, prompt=prompt,
\* ...): the arguments handed on.
ForwardedArgs(args) == [a \in TextInputsArgNames |-> args[a]]

image2image_inputs(self, args) ==
    LET image == LoadImage(args["image"], "RGB")
        pixel_values == Processed("vae_image_processor", image)
        text_inputs == text2image_inputs(self, ForwardedArgs(args))
    IN  GenericOutputsOf([pixel_values |-> pixel_values], text_inputs.fields)

inpainting_inputs(self, args) ==
    LET image == LoadImage(args["image"], "RGB")
        mask_image == LoadImage(args["mask_image"], "L")
        pixel_values == Processed("vae_image_processor", image)
        pixel_masks ==
            Processed("(x + 1) / 2",
                      Processed("vae_mask_image_processor", mask_image))
        text_inputs == text2image_inputs(self, ForwardedArgs(args))
    IN  GenericOutputsOf([pixel_values |-> pixel_values,
                          pixel_masks |-> pixel_masks],
                         text_inputs.fields)

\* Images handed to the processor: a path or an opened image.
ImageArgs(name) == {Str(<<name, "png">>), Image(<<name>>, "RGBA")}

Prompts == {Str(<<"a">>), Str(<<"a", "b", "c">>)}

\* The arguments of the four methods; text2image ignores the negative
\* prompts and mask_image, text2image_inputs the images but condition_image.
ProcessorArgs ==
    {[image |-> image, mask_image |-> Image(<<"mask">>, "RGBA"),
      condition_image |-> condition_image, prompt |-> prompt,
      prompt2 |-> prompt2, negative_prompt |-> negative_prompt,
      negative_prompt2 |-> negative_prompt2,
      max_seq_length |-> max_seq_length] :
        image \in ImageArgs("image"),
        condition_image \in ImageArgs("condition"),
        prompt \in Prompts,
        prompt2 \in {None, Str(<<"b">>)},
        negative_prompt \in {Str(<<>>), Str(<<"c">>)},
        negative_prompt2 \in {None, Str(<<"d", "e">>)},
        max_seq_length \in {None, Number(3)}}

ProcessorCall(method, args, outcome) ==
    /\ call.op = "idle"
    /\ UNCHANGED objects
    /\ call' = [op |-> method, self |-> ControlNetXLProcessor(ProcessorMaxSeqLength),
                args |-> args]
    /\ result' = outcome

Returned(outputs) ==
    [status |-> IF outputs = Raised THEN "error" ELSE "ok",
     returned |-> outputs]

NextProcessor ==
    \/ /\ call.op = "idle"
       /\ \E args \in ProcessorArgs :
             ProcessorCall("text2image", args,
                 text2image(ControlNetXLProcessor(ProcessorMaxSeqLength), args))
    \/ /\ call.op = "idle"
       /\ \E args \in ProcessorArgs :
             ProcessorCall("text2image_inputs", args,
                 Returned(text2image_inputs(
                     ControlNetXLProcessor(ProcessorMaxSeqLength), args)))
    \/ /\ call.op = "idle"
       /\ \E args \in ProcessorArgs :
             ProcessorCall("image2image_inputs", args,
                 Returned(image2image_inputs(
                     ControlNetXLProcessor(ProcessorMaxSeqLength), args)))
    \/ /\ call.op = "idle"
       /\ \E args \in ProcessorArgs :
             ProcessorCall("inpainting_inputs", args,
                 Returned(inpainting_inputs(
                     ControlNetXLProcessor(ProcessorMaxSeqLength), args)))
    \/ Return

SpecProcessor == Init /\ [][NextProcessor]_vars

(***************************************************************************)
(* MultiControlNetXLForImageInpaintingPipeline.__call__ on the pipeline     *)
(* objects built by from_core_configure.                                    *)
(***************************************************************************)
\* unitorch.cli.pipelines.Schedulers: the names of the registered schedulers.
Schedulers == {"DDIM", "DPM++"}

\* The object cls(...) returns: the scheduler built from
\* scheduler_config_path, no timesteps, FreeU and seed as the parent class
\* leaves them; last is the latest completed call, its arguments and what
\* its generate ran with.
NewPipeline(ctor) ==
    [built |-> ctor,
     scheduler |-> [cls |-> "scheduler_config_path",
                    config |-> ctor["scheduler_config_path"],
                    timesteps |-> None],
     freeu |-> None,
     seed |-> None,
     last |-> None]

\* The two pipeline objects whose calls are compared.
PipelineIds == {1, 2}

\* The configurations the pipelines are built from.
PipelineCallConfigs ==
    {<<>>, "scheduler_config_path" :> UserPath("scheduler_config_path")}

BuildPipeline(config) ==
    LET outcome == PipelineFromCoreConfigure(
                       config, pretrained_diffusers_infos(TRUE), TRUE)
    IN  /\ Len(pipelines) < Cardinality(PipelineIds)
        /\ call' = [op |-> "from_core_configure", cls |-> PipelineClassName,
                    config |-> config,
                    infos |-> pretrained_diffusers_infos(TRUE),
                    xformers_available |-> TRUE]
        /\ result' = outcome
        /\ pipelines' = IF outcome.status = "ok"
                        THEN Append(pipelines, NewPipeline(outcome.ctor))
                        ELSE pipelines
        /\ UNCHANGED <<dpt_pipe, heap, threads>>

\* if scheduler is not None:
\*     self.scheduler = Schedulers.get(scheduler).from_config(
\*         self.scheduler.config)
SchedulerForCall(self, scheduler) ==
    IF scheduler # None
    THEN [cls |-> scheduler.path[1], config |-> self.scheduler.config,
          timesteps |-> None]
    ELSE self.scheduler

\* __call__ with the assertion on the scheduler name placed after the
\* assignments instead of before them.
PipelineDunderCallAssertsLast(self, args) ==
    LET valid == args["scheduler"] = None
                     \/ args["scheduler"].path[1] \in Schedulers
        scheduler ==
            [(IF valid THEN SchedulerForCall(self, args["scheduler"])
                       ELSE self.scheduler)
                EXCEPT !.timesteps = args["num_timesteps"]]
        used == [scheduler |-> scheduler.cls,
                 num_timesteps |-> scheduler.timesteps,
                 freeu_params |-> args["freeu_params"],
                 seed |-> args["seed"]]
        after == [self EXCEPT !.scheduler = scheduler,
                              !.freeu = args["freeu_params"],
                              !.seed = args["seed"]]
    IN  IF valid
        THEN [status |-> "ok",
              self |-> [after EXCEPT !.last = [args |-> args, used |-> used]],
              used |-> used]
        ELSE [status |-> "error", self |-> after, used |-> None]

\* __call__: the object after the call and what the call's generate ran
\* with; an unregistered scheduler name fails the assertion and leaves the
\* object as it was.
PipelineDunderCall(self, args) ==
    IF ~(args["scheduler"] = None \/ args["scheduler"].path[1] \in Schedulers)
    THEN [status |-> "error", self |-> self, used |-> None]
    ELSE LET scheduler ==
                 [SchedulerForCall(self, args["scheduler"])
                     EXCEPT !.timesteps = args["num_timesteps"]]
             used == [scheduler |-> scheduler.cls,
                      num_timesteps |-> scheduler.timesteps,
                      freeu_params |-> args["freeu_params"],
                      seed |-> args["seed"]]
         IN  [status |-> "ok",
              self |-> [self EXCEPT !.scheduler = scheduler,
                                    !.freeu = args["freeu_params"],
                                    !.seed = args["seed"],
                                    !.last = [args |-> args, used |-> used]],
              used |-> used]

PipelineCallArgs ==
    {[scheduler |-> scheduler, num_timesteps |-> num_timesteps,
      seed |-> seed, freeu_params |-> Str(<<"0.9", "0.2", "1.2", "1.4">>)] :
        scheduler \in {None, Str(<<"DDIM">>), Str(<<"DPM++">>),
                       Str(<<"unregistered">>)},
        num_timesteps \in {Number(50), Number(20)},
        seed \in {Number(1123), Number(7)}}

PipelineCall(i, args) ==
    LET outcome == PipelineDunderCall(pipelines[i], args)
    IN  /\ call' = [op |-> "__call__", pipeline |-> i, args |-> args]
        /\ result' = [status |-> outcome.status, used |-> outcome.used]
        /\ pipelines' = [pipelines EXCEPT ![i] = outcome.self]
        /\ UNCHANGED <<dpt_pipe, heap, threads>>

NextPipelineCalls ==
    \/ \E config \in PipelineCallConfigs : BuildPipeline(config)
    \/ \E i \in DOMAIN pipelines :
          \E args \in PipelineCallArgs : PipelineCall(i, args)

SpecPipelineCalls == Init /\ [][NextPipelineCalls]_vars

(***************************************************************************)
(* canny() and depth() of cli/pipelines/stable_xl/__init__.py.  A caller    *)
(* runs depth() line by line; between two lines another caller may run.     *)
(***************************************************************************)
\* A reference to the k-th DPT pipeline object constructed.
Ref(k) == [kind |-> "ref", to |-> k]

\* A slip: the pipeline built on every call.
DptMissingSlip(pipe) == TRUE

\* if dpt_pipe is None:
DptMissing(pipe) == pipe = None

\* The images handed to depth() and canny().
StableXLImages == {Image(<<"photo">>, "RGB"), Image(<<"sketch">>, "RGB")}

\* A caller enters depth(image).
CallDepth(t, image) ==
    /\ threads[t].pc = "idle"
    /\ threads' = [threads EXCEPT ![t] = [pc |-> "depth:31", image |-> image]]
    /\ UNCHANGED <<call, result, pipelines, dpt_pipe, heap>>

\* The same, when callers take turns: nobody else is inside a function.
CallDepthInTurn(t, image) ==
    /\ \A u \in Threads : threads[u].pc \in {"idle", "returned"}
    /\ CallDepth(t, image)

\* line 31: the test of the global.
DepthTest(t) ==
    /\ threads[t].pc = "depth:31"
    /\ threads' = [threads EXCEPT ![t] =
                      [pc |-> IF DptMissing(dpt_pipe) THEN "depth:32"
                              ELSE "depth:36",
                       image |-> threads[t].image]]
    /\ UNCHANGED <<call, result, pipelines, dpt_pipe, heap>>

\* lines 32-34: a pipeline is constructed and assigned to the global; it is
\* on whatever device from_core_configure left it.
DepthConstruct(t) ==
    /\ threads[t].pc = "depth:32"
    /\ heap' = Append(heap, [device |-> "as constructed",
                             built_by |-> "depth"])
    /\ dpt_pipe' = Ref(Len(heap) + 1)
    /\ threads' = [threads EXCEPT ![t].pc = "depth:35"]
    /\ UNCHANGED <<call, result, pipelines>>

\* line 35: dpt_pipe.to("cpu") moves the object the global refers to now.
DepthToCpu(t) ==
    /\ threads[t].pc = "depth:35"
    /\ heap' = [heap EXCEPT ![dpt_pipe.to].device = "cpu"]
    /\ threads' = [threads EXCEPT ![t].pc = "depth:36"]
    /\ UNCHANGED <<call, result, pipelines, dpt_pipe>>

\* line 36: return dpt_pipe(image); the frame keeps which object ran and on
\* which device it was.
DepthUse(t) ==
    /\ threads[t].pc = "depth:36"
    /\ threads' = [threads EXCEPT ![t] =
                      [pc |-> "returned", fn |-> "depth",
                       image |-> threads[t].image,
                       by |-> dpt_pipe, device |-> heap[dpt_pipe.to].device]]
    /\ UNCHANGED <<call, result, pipelines, dpt_pipe, heap>>

\* canny(image): edges by OpenCV when it is installed, by PIL's FIND_EDGES
\* filter otherwise; no global is read or written.
Canny(t, image, opencv_available) ==
    /\ \A u \in Threads : threads[u].pc \in {"idle", "returned"}
    /\ threads[t].pc = "idle"
    /\ threads' = [threads EXCEPT ![t] =
                      [pc |-> "returned", fn |-> "canny",
                       image |-> image,
                       by |-> IF opencv_available THEN Str(<<"cv2.Canny">>)
                              ELSE Str(<<"ImageFilter.FIND_EDGES">>),
                       device |-> "none"]]
    /\ UNCHANGED <<call, result, pipelines, dpt_pipe, heap>>

\* The caller takes what the function returned.
ThreadReturn(t) ==
    /\ threads[t].pc = "returned"
    /\ threads' = [threads EXCEPT ![t] = NoFrame]
    /\ UNCHANGED <<call, result, pipelines, dpt_pipe, heap>>

\* Callers of depth() run concurrently.
NextDepthConcurrent ==
    \/ \E t \in Threads : \E image \in StableXLImages : CallDepth(t, image)
    \/ \E t \in Threads : DepthTest(t)
    \/ \E t \in Threads : DepthConstruct(t)
    \/ \E t \in Threads : DepthToCpu(t)
    \/ \E t \in Threads : DepthUse(t)
    \/ \E t \in Threads : ThreadReturn(t)

SpecDepthConcurrent == Init /\ [][NextDepthConcurrent]_vars

\* Callers of depth() and canny() take turns.
NextDepthSequential ==
    \/ \E t \in Threads : \E image \in StableXLImages :
          CallDepthInTurn(t, image)
    \/ \E t \in Threads : DepthTest(t)
    \/ \E t \in Threads : DepthConstruct(t)
    \/ \E t \in Threads : DepthToCpu(t)
    \/ \E t \in Threads : DepthUse(t)
    \/ \E t \in Threads : \E image \in StableXLImages :
          \E opencv_available \in BOOLEAN :
             Canny(t, image, opencv_available)
    \/ \E t \in Threads : ThreadReturn(t)

SpecDepthSequential == Init /\ [][NextDepthSequential]_vars

(***************************************************************************)
(* Terms of the properties of from_core_configure.                          *)
(***************************************************************************)
\* The path options of a class.
PathOptionsOf(cls) ==
    IF cls \in SiglipClasses THEN {"config_path"}
    ELSE IF cls = "T5Processor" THEN {"vocab_path"}
    ELSE IF cls \in LoraClasses THEN LoraPathOptions
    ELSE PipelinePathOptions

\* The value registered for an option under the configured pretrained_name
\* (pretrained_controlnet_name for the LoRA models' ControlNet config), None
\* when nothing is registered.
RegisteredPath(c, option) ==
    LET name(opt, default) == getoption(c.config, opt, Str(<<default>>)).path[1]
    IN  IF c.cls \in SiglipClasses
        THEN nested_dict_value(c.infos,
                 <<name("pretrained_name", SiglipDefaultName), "config">>)
        ELSE IF c.cls = "T5Processor"
        THEN nested_dict_value(c.infos,
                 <<name("pretrained_name", T5DefaultName), "vocab">>)
        ELSE IF c.cls \in LoraClasses
        THEN IF option = "controlnet_configs_path"
             THEN nested_dict_value(pretrained_stable_extensions_infos,
                      <<name("pretrained_controlnet_name",
                             ControlNetDefaultName)>>
                          \o LoraRegistryKeys(option))
             ELSE nested_dict_value(pretrained_stable_infos,
                      <<name("pretrained_name", StableDefaultName)>>
                          \o LoraRegistryKeys(option))
        ELSE nested_dict_value(c.infos,
                 <<name("pretrained_name", PipelineDefaultName)>>
                     \o PipelineRegistryKeys(option))

\* The path or list of paths a constructor argument was resolved from: the
\* argument without its local-cache lookup and without the list a single
\* ControlNet config path is wrapped in.
PassedPath(v) ==
    LET uncached(x) == IF x.kind = "cached" THEN x.of ELSE x
    IN  IF v.kind # "list" THEN uncached(v)
        ELSE IF Len(v.items) = 1 /\ v.items[1].kind = "str" THEN v.items[1]
        ELSE List([i \in 1..Len(v.items) |-> uncached(v.items[i])])

(***************************************************************************)
(* C1: in every from_core_configure, for each path option: if the user's    *)
(* configuration sets the option, that value is the one resolved and passed *)
(* to the constructor; only when the option is unset is the value           *)
(* registered for pretrained_name passed.                                   *)
(***************************************************************************)
C1_UserPathsTakePrecedence ==
    (call.op = "from_core_configure" /\ Constructed(result)) =>
        \A o \in PathOptionsOf(call.cls) :
            PassedPath(result.ctor[o])
                = IF o \in DOMAIN call.config THEN call.config[o]
                  ELSE RegisteredPath(call, o)

\* The pipeline was built from a user's list of ControlNet configs and the
\* registered UNet config.
C1_Witness ==
    /\ call.op = "from_core_configure"
    /\ call.cls = PipelineClassName
    /\ "controlnet_configs_path" \in DOMAIN call.config
    /\ call.config["controlnet_configs_path"].kind = "list"
    /\ "config_path" \notin DOMAIN call.config
    /\ RegisteredPath(call, "config_path") # None
    /\ result.status = "ok"
    /\ PassedPath(result.ctor["controlnet_configs_path"])
           = call.config["controlnet_configs_path"]
    /\ PassedPath(result.ctor["config_path"])
           = RegisteredPath(call, "config_path")

(***************************************************************************)
(* C2: if a required path option is unset and the registry yields no value  *)
(* for pretrained_name, from_core_configure fails with an error before the  *)
(* class constructor is called: no instance is built and from_pretrained is *)
(* never called.                                                            *)
(***************************************************************************)
C2_MissingPathFailsBeforeConstruction ==
    (/\ call.op = "from_core_configure"
     /\ \E o \in PathOptionsOf(call.cls) :
           /\ o \notin DOMAIN call.config
           /\ RegisteredPath(call, o) = None) =>
        /\ result.status = "error"
        /\ ~Constructed(result)
        /\ result.loaded = <<>>

\* T5Processor was configured with an unregistered pretrained_name and no
\* vocab_path, and failed.
C2_Witness ==
    /\ call.op = "from_core_configure"
    /\ call.cls = "T5Processor"
    /\ "vocab_path" \notin DOMAIN call.config
    /\ RegisteredPath(call, "vocab_path") = None
    /\ result.status = "error"
    /\ result.events = <<>>

(***************************************************************************)
(* C3: for each of the five SigLIP classes, from_core_configure calls       *)
(* from_pretrained exactly once, after construction, with the user's        *)
(* pretrained_weight_path when it is set, otherwise with the weight         *)
(* registered for pretrained_name; when both are None it does not call      *)
(* from_pretrained and still returns the instance without error.            *)
(***************************************************************************)
C3_SiglipLoadsOnceAfterConstruction ==
    (/\ call.op = "from_core_configure"
     /\ call.cls \in SiglipClasses
     /\ \/ "config_path" \in DOMAIN call.config
        \/ RegisteredPath(call, "config_path") # None) =>
        LET user == getoption(call.config, "pretrained_weight_path", None)
            name == getoption(call.config, "pretrained_name",
                              Str(<<SiglipDefaultName>>)).path[1]
            registered == nested_dict_value(call.infos, <<name, "weight">>)
            weight == IF user # None THEN user ELSE registered
        IN  /\ result.status = "ok"
            /\ IF weight # None
               THEN /\ result.events = <<"construct", "from_pretrained">>
                    /\ result.loaded = <<FromPretrained(weight, None)>>
               ELSE /\ result.events = <<"construct">>
                    /\ result.loaded = <<>>

\* A SigLIP matching model with neither a user weight nor a registered one
\* was built and returned without a from_pretrained call.
C3_Witness ==
    /\ call.op = "from_core_configure"
    /\ call.cls = "SiglipForMatching"
    /\ "pretrained_weight_path" \notin DOMAIN call.config
    /\ "pretrained_name" \notin DOMAIN call.config
    /\ nested_dict_value(call.infos, <<SiglipDefaultName, "weight">>) = None
    /\ result.status = "ok"
    /\ result.events = <<"construct">>
    /\ result.loaded = <<>>

(***************************************************************************)
(* C4: every generate of a ControlNet* or ControlNetXL* model first         *)
(* computes the positive and negative prompt embeddings with the model's    *)
(* own text encoder(s), then builds exactly one library pipeline from the   *)
(* model's own sub-modules, then invokes that pipeline exactly once and     *)
(* returns its images; the pipeline is never built or invoked before the    *)
(* encoder outputs exist and no sub-module of the model is replaced.        *)
(***************************************************************************)
C4_GenerateOrder ==
    call.op = "generate" =>
        /\ result.status # "error"
        /\ result.model = call.model
        /\ Len(result.pipelines) <= 1
        /\ Len(result.invocations) <= 1
        /\ result.pipelines # <<>> =>
              /\ \A st \in EncoderStatements(call.cls) :
                    result.outputs[st] = Encode(call.model, st, call.args)
              /\ result.pipelines[1].cls = PipelineClass(call.cls)
              /\ result.pipelines[1].parts = call.model.modules
        /\ result.invocations # <<>> =>
              /\ result.pipelines # <<>>
              /\ result.invocations[1].pipeline = 1
              /\ result.invocations[1].seed = call.model.seed
              /\ \A st \in EncoderStatements(call.cls) :
                    result.invocations[1].embeds[st]
                        = Encode(call.model, st, call.args)
        /\ result.status = "ok" =>
              /\ Len(result.pipelines) = 1
              /\ Len(result.invocations) = 1
              /\ result.returned = 1

\* An XL generate called without attention masks has returned the images of
\* its one pipeline invocation.
C4_Witness ==
    /\ call.op = "generate"
    /\ call.cls = "ControlNetXLForImageInpainting"
    /\ call.args["attention2_mask"] = None
    /\ result.status = "ok"
    /\ Len(result.invocations) = 1
    /\ result.returned = 1


(***************************************************************************)
(* Terms of C5 and C8: the default-weights branch of a LoRA                 *)
(* from_core_configure that reached from_pretrained.                        *)
(***************************************************************************)
LoraDefaultBranchLoaded ==
    /\ call.op = "from_core_configure"
    /\ call.cls \in LoraClasses
    /\ "pretrained_weight_path" \notin DOMAIN call.config
    /\ "pretrained_name" \notin DOMAIN call.config
    /\ result.loaded # <<>>

ClaimedComponents == <<"unet", "text", "text2", "vae", "controlnet">>

ClaimedPrefixes ==
    <<<<"u","n","e","t",".">>, <<"t","e","x","t",".">>, <<"t","e","x","t","2",".">>, <<"v","a","e",".">>, <<"c","o","n","t","r","o","l","n","e","t",".">>>>

\* The weight registered for the i-th component.
ClaimedWeight(i) ==
    IF ClaimedComponents[i] = "controlnet"
    THEN nested_dict_value(pretrained_stable_extensions_infos,
             <<getoption(call.config, "pretrained_controlnet_name",
                         Str(<<ControlNetDefaultName>>)).path[1],
               "controlnet", "weight">>)
    ELSE nested_dict_value(pretrained_stable_infos,
             <<StableDefaultName, ClaimedComponents[i], "weight">>)

(***************************************************************************)
(* C5: in the three LoRA from_core_configure methods, when                  *)
(* pretrained_weight_path is unset and pretrained_name is registered, the   *)
(* state-dict list handed to from_pretrained holds, in this order, the      *)
(* unet, text, text2, vae and controlnet weights, each loaded with its own  *)
(* prefix "unet.", "text.", "text2.", "vae.", "controlnet."; no key of one  *)
(* component equals a key of another component.                             *)
(***************************************************************************)
C5_DefaultStateDictOrderAndPrefixes ==
    LoraDefaultBranchLoaded =>
        LET sd == result.loaded[1].state_dict
        IN  /\ Len(result.loaded) = 1
            /\ sd.kind = "list"
            /\ Len(sd.items) >= 5
            /\ \A i \in 1..5 :
                  /\ sd.items[i].file = ClaimedWeight(i)
                  /\ \A k \in sd.items[i].keys :
                        StartsWith(k.key, ClaimedPrefixes[i])
            /\ \A i, j \in 1..5 :
                  i # j =>
                     \A ki \in sd.items[i].keys, kj \in sd.items[j].keys :
                        ki.key # kj.key

\* A LoRA image-to-image model got the five default state dicts, and the
\* text and text2 items hold the same raw key under different names.
C5_Witness ==
    /\ LoraDefaultBranchLoaded
    /\ call.cls = "ControlNetXLLoraForImage2ImageGeneration"
    /\ result.status = "ok"
    /\ Len(result.loaded[1].state_dict.items) = 5
    /\ \E k \in result.loaded[1].state_dict.items[2].keys :
          k.key = <<"t","e","x","t",".","c","o","n","v","_","i","n",".","w","e","i","g","h","t">>
    /\ \E k \in result.loaded[1].state_dict.items[3].keys :
          k.key = <<"t","e","x","t","2",".","c","o","n","v","_","i","n",".","w","e","i","g","h","t">>

(***************************************************************************)
(* C6: in prefix_keys_in_state_dict of every ControlNet* and ControlNetXL*  *)
(* class no key matches patterns of two different prefixes: the patterns    *)
(* that match a key all carry one prefix; a key starting with               *)
(* post_quant_conv or quant_conv gets "vae." only, and a key starting with  *)
(* conv_in, conv_norm_out or conv_out gets "unet." only.                    *)
(***************************************************************************)
C6_OnePrefixPerKey ==
    call.op = "prefix_keys" =>
        /\ Cardinality(result.prefixes) <= 1
        /\ (StartsWith(call.key, <<"p","o","s","t","_","q","u","a","n","t","_","c","o","n","v">>)
                \/ StartsWith(call.key, <<"q","u","a","n","t","_","c","o","n","v">>))
              => result.prefixes = {VaePrefix}
        /\ (StartsWith(call.key, <<"c","o","n","v","_","i","n">>)
                \/ StartsWith(call.key, <<"c","o","n","v","_","n","o","r","m","_","o","u","t">>)
                \/ StartsWith(call.key, <<"c","o","n","v","_","o","u","t">>))
              => result.prefixes = {UnetPrefix}

\* A key post_quant_conv.weight has been matched: ^quant_conv.* does not
\* match it, ^post_quant_conv.* does.
C6_Witness ==
    /\ call.op = "prefix_keys"
    /\ call.key = <<"p","o","s","t","_","q","u","a","n","t","_","c","o","n","v",".","w","e","i","g","h","t">>
    /\ result.prefixes = {VaePrefix}

(***************************************************************************)
(* C7 as stated: the four renaming rules are order-independent and          *)
(* idempotent for every key: every order of the rules gives the result of   *)
(* the dict order, and applying the rule set to that result changes nothing.*)
(***************************************************************************)
C7_Original ==
    call.op = "replace_keys" =>
        /\ result.anyOrder = {result.renamed}
        /\ result.twice = result.renamed

\* A rule's segment occurs twice in a row, the two occurrences sharing a dot
\* (.key.key.): re.sub's matches do not overlap, so one pass renames only the
\* first of the two.
SharedDotRepeat(key) ==
    \E r \in 1..Len(replace_keys_in_state_dict) :
        LET pat == replace_keys_in_state_dict[r].pattern
        IN  \E i \in 1..Len(key) : MatchesAt(pat \o Tail(pat), key, i)

(***************************************************************************)
(* C7 amended: the four rules are order-independent for every key; applying *)
(* the rule set a second time changes nothing exactly for the keys in which *)
(* no rule's segment occurs twice in a row sharing a dot.                   *)
(***************************************************************************)
C7_OrderIndependentIdempotentUnlessRepeat ==
    call.op = "replace_keys" =>
        /\ result.anyOrder = {result.renamed}
        /\ (result.twice = result.renamed) <=> ~SharedDotRepeat(call.key)

\* down_blocks.query.key.weight was renamed to down_blocks.to_q.to_k.weight,
\* two rules matching around one shared dot.
C7_Witness ==
    /\ call.op = "replace_keys"
    /\ call.key = <<"d","o","w","n","_","b","l","o","c","k","s",".","q","u","e","r","y",".","k","e","y",".","w","e","i","g","h","t">>
    /\ result.renamed = <<"d","o","w","n","_","b","l","o","c","k","s",".","t","o","_","q",".","t","o","_","k",".","w","e","i","g","h","t">>
    /\ result.twice = result.renamed

(***************************************************************************)
(* C8: in the default-weights branch of the three LoRA from_core_configure  *)
(* methods the renames to_k. / to_q. / to_v. / to_out.0. ->                 *)
(* <same>base_layer. are requested only for the UNet weights; every key of  *)
(* the text, text2, vae and controlnet weights keeps its original name      *)
(* after its prefix, controlnet attention keys that contain to_k., to_q.,   *)
(* to_v. or to_out.0. included.                                             *)
(***************************************************************************)
C8_BaseLayerRenamesOnlyForUnet ==
    LoraDefaultBranchLoaded =>
        LET sd == result.loaded[1].state_dict
        IN  /\ \A i \in 2..5 :
                  \A k \in sd.items[i].keys :
                      k.key = ClaimedPrefixes[i] \o k.raw
            /\ \E k \in sd.items[1].keys :
                  /\ k.raw = <<"a","t","t","n",".","t","o","_","k",".","w","e","i","g","h","t">>
                  /\ k.key = <<"u","n","e","t",".","a","t","t","n",".","t","o","_","k",".","b","a","s","e","_","l","a","y","e","r",".","w","e","i","g","h","t">>
            /\ \E k \in sd.items[1].keys :
                  /\ k.raw = <<"a","t","t","n",".","t","o","_","o","u","t",".","0",".","b","i","a","s">>
                  /\ k.key = <<"u","n","e","t",".","a","t","t","n",".","t","o","_","o","u","t",".","0",".","b","a","s","e","_","l","a","y","e","r",".","b","i","a","s">>

\* The controlnet item of a loaded default list holds an attention key with
\* to_k. under its original name, the unet item holds it renamed.
C8_Witness ==
    /\ LoraDefaultBranchLoaded
    /\ result.status = "ok"
    /\ \E k \in result.loaded[1].state_dict.items[5].keys :
          k.key = <<"c","o","n","t","r","o","l","n","e","t",".","a","t","t","n",".","t","o","_","k",".","w","e","i","g","h","t">>
    /\ \E k \in result.loaded[1].state_dict.items[1].keys :
          k.key = <<"u","n","e","t",".","a","t","t","n",".","t","o","_","k",".","b","a","s","e","_","l","a","y","e","r",".","w","e","i","g","h","t">>

(***************************************************************************)
(* C9: for every SigLIP class, the value the user sets for the option       *)
(* freeze_base_model is the value passed as freeze_base_model to the        *)
(* constructor, and True is passed when the option is unset.                *)
(***************************************************************************)
C9_Original ==
    (/\ call.op = "from_core_configure"
     /\ call.cls \in SiglipClasses
     /\ Constructed(result)) =>
        result.ctor["freeze_base_model"]
            = getoption(call.config, "freeze_base_model", Bool(TRUE))

C11_Original ==
    call.op = "text2image" =>
        /\ result.status = "ok"
        /\ DOMAIN result.returned.fields
              = {"pixel_values", "condition_pixel_values", "input_ids",
                 "attention_mask", "input2_ids", "attention2_mask",
                 "add_time_ids"}
        /\ Len(result.returned.fields["add_time_ids"].of) = 6

(***************************************************************************)
(* C12: for the same prompt, prompt2, negative prompts, condition image and *)
(* max_seq_length, image2image_inputs returns exactly the fields of         *)
(* text2image_inputs with identical values plus pixel_values, and           *)
(* inpainting_inputs returns exactly those fields plus pixel_values and     *)
(* pixel_masks; neither drops nor alters a field of text2image_inputs.      *)
(***************************************************************************)
C12_InputsExtendText2ImageInputs ==
    call.op \in {"image2image_inputs", "inpainting_inputs"} =>
        LET text == text2image_inputs(call.self,
                        [a \in TextInputsArgNames |-> call.args[a]]).fields
            more == IF call.op = "image2image_inputs" THEN {"pixel_values"}
                    ELSE {"pixel_values", "pixel_masks"}
        IN  /\ result.status = "ok"
            /\ DOMAIN text \cap more = {}
            /\ DOMAIN result.returned.fields = DOMAIN text \cup more
            /\ \A f \in DOMAIN text : result.returned.fields[f] = text[f]

\* inpainting_inputs, called with a second negative prompt of its own and a
\* prompt that is cut to max_seq_length, returned the eleven fields.
C12_Witness ==
    /\ call.op = "inpainting_inputs"
    /\ call.args["negative_prompt2"] = Str(<<"d", "e">>)
    /\ call.args["prompt"] = Str(<<"a", "b", "c">>)
    /\ call.args["max_seq_length"] = Number(3)
    /\ result.status = "ok"
    /\ Cardinality(DOMAIN result.returned.fields) = 11
    /\ result.returned.fields["input_ids"].of
          = <<"<|startoftext|>", "a", "<|endoftext|>">>
    /\ result.returned.fields["negative_input2_ids"].of
          = <<"<|startoftext|>", "d", "<|endoftext|>">>

(***************************************************************************)
(* C13: in the three LoRA from_core_configure methods, for every            *)
(* combination of pretrained_weight_path (set / unset) and                  *)
(* pretrained_lora_weight_path (set / unset) the method completes without   *)
(* error; when both are set, from_pretrained is called once with the        *)
(* weights of pretrained_weight_path followed by the LoRA weights, and      *)
(* whenever LoRA weights are given together with base weights the LoRA      *)
(* weights are the last element.                                            *)
(***************************************************************************)
C13_Original ==
    (/\ call.op = "from_core_configure"
     /\ call.cls \in LoraClasses
     /\ "pretrained_name" \notin DOMAIN call.config
     /\ "pretrained_controlnet_name" \notin DOMAIN call.config) =>
        LET weight_path ==
                getoption(call.config, "pretrained_weight_path", None)
            lora_path ==
                getoption(call.config, "pretrained_lora_weight_path", None)
            lora == load_weight(lora_path, <<>>, <<>>)
            sd == result.loaded[1].state_dict
        IN  /\ result.status = "ok"
            /\ Len(result.loaded) = 1
            /\ (weight_path # None /\ lora_path # None) =>
                  sd = List(<<load_weight(weight_path, <<>>, <<>>), lora>>)
            /\ (weight_path = None /\ lora_path # None) =>
                  /\ sd.kind = "list"
                  /\ Len(sd.items) = 6
                  /\ sd.items[6] = lora

(***************************************************************************)
(* C14: __call__ of the MultiControlNetXL inpainting pipeline is            *)
(* history-independent: two pipelines built identically whose latest calls  *)
(* had the same arguments ran them with the same scheduler class, number of *)
(* timesteps, FreeU parameters and seed, whatever their earlier calls were. *)
(***************************************************************************)
C14_Original ==
    \A i, j \in DOMAIN pipelines :
        (/\ pipelines[i].built = pipelines[j].built
         /\ pipelines[i].last # None
         /\ pipelines[j].last # None
         /\ pipelines[i].last.args = pipelines[j].last.args) =>
            pipelines[i].last.used = pipelines[j].last.used

(***************************************************************************)
(* C15: when two or more callers run depth() concurrently while dpt_pipe is *)
(* still None, the DPT pipeline is constructed at most once, and no caller  *)
(* uses a pipeline object that has not yet been moved to the CPU device.    *)
(***************************************************************************)
C15_Original ==
    /\ Len(heap) <= 1
    /\ \A t \in Threads :
          (threads[t].pc = "returned" /\ threads[t].fn = "depth") =>
              threads[t].device = "cpu"

(***************************************************************************)
(* C16: over any sequence of sequential calls to depth() and canny(), the   *)
(* DPT pipeline is constructed exactly once, at the first depth() call;     *)
(* every later depth() call reuses the same object, dpt_pipe never returns  *)
(* to None, and canny() never constructs or reads it.                       *)
(***************************************************************************)
C16_DptBuiltOnceByFirstDepth ==
    /\ Len(heap) <= 1
    /\ \A k \in DOMAIN heap : heap[k].built_by = "depth"
    /\ heap # <<>> => dpt_pipe = Ref(1)
    /\ heap = <<>> => dpt_pipe = None
    /\ \A t \in Threads :
          /\ threads[t].pc \in {"depth:35", "depth:36"} => dpt_pipe = Ref(1)
          /\ threads[t].pc = "returned" =>
                IF threads[t].fn = "depth"
                THEN threads[t].by = Ref(1) /\ threads[t].device = "cpu"
                ELSE /\ threads[t].by.kind = "str"
                     /\ threads[t].device = "none"

\* A second depth() call has returned after the first one built the
\* pipeline, and it ran the object the first call built.
C16_Witness ==
    /\ heap = <<[device |-> "cpu", built_by |-> "depth"]>>
    /\ threads[1].pc = "returned"
    /\ threads[1].fn = "depth"
    /\ threads[1].by = Ref(1)
    /\ threads[2].pc = "returned"
    /\ threads[2].fn = "depth"
    /\ threads[2].by = Ref(1)

(***************************************************************************)
(* Terms of C17 to C20: a from_core_configure of the pipeline class that    *)
(* reached the constructor.                                                 *)
(***************************************************************************)
PipelineConstructed ==
    /\ call.op = "from_core_configure"
    /\ call.cls = PipelineClassName
    /\ Constructed(result)

Placements == {"enable_model_cpu_offload", "half", "to_device"}

(***************************************************************************)
(* C17: the constructor of the pipeline builds the sub-modules and the      *)
(* processor, calls from_pretrained exactly once (also when weight_path and *)
(* state_dict are both None), switches to eval mode, then places the model  *)
(* (CPU offload plus half precision, or a move to the device), and only     *)
(* last enables xformers attention; a failed xformers assertion happens     *)
(* only after the weights are loaded and the model is placed.               *)
(***************************************************************************)
C17_ConstructorOrder ==
    PipelineConstructed =>
        LET events == result.events
            placed == SubSeq(events, 4, Len(events))
        IN  /\ Len(events) >= 4
            /\ SubSeq(events, 1, 3) = <<"construct", "from_pretrained", "eval">>
            /\ Len(result.loaded) = 1
            /\ result.loaded[1]
                  = FromPretrained(result.ctor["weight_path"],
                                   result.ctor["state_dict"])
            /\ \/ placed = <<"enable_model_cpu_offload", "half">>
               \/ placed = <<"to_device">>
               \/ /\ result.status = "ok"
                  /\ placed \in {<<"enable_model_cpu_offload", "half",
                                   "enable_xformers">>,
                                 <<"to_device", "enable_xformers">>}

\* A pipeline built with every path given by the user, an unregistered
\* pretrained_name and a device that is not the CPU failed the xformers
\* assertion after from_pretrained(None, state_dict=None) and the placement.
C17_Witness ==
    /\ PipelineConstructed
    /\ result.status = "error"
    /\ result.loaded = <<FromPretrained(None, None)>>
    /\ result.events = <<"construct", "from_pretrained", "eval",
                         "enable_model_cpu_offload", "half">>

(***************************************************************************)
(* C18: in the constructor of the pipeline, when device is "cpu" neither    *)
(* model CPU offload, nor the cast to half precision, nor xformers          *)
(* attention is enabled, whatever enable_cpu_offload and enable_xformers    *)
(* are; when device is not "cpu", exactly one placement happens: CPU        *)
(* offload with half precision if enable_cpu_offload is true, otherwise a   *)
(* plain move to the device.                                                *)
(***************************************************************************)
C18_PlacementByDevice ==
    PipelineConstructed =>
        LET happened == {result.events[i] : i \in 1..Len(result.events)}
        IN  IF result.ctor["device"] = Str(<<"cpu">>)
            THEN happened \cap (Placements \cup {"enable_xformers"})
                     = {"to_device"}
            ELSE IF result.ctor["enable_cpu_offload"] = Bool(TRUE)
            THEN happened \cap Placements
                     = {"enable_model_cpu_offload", "half"}
            ELSE happened \cap Placements = {"to_device"}

\* A pipeline built on the CPU with enable_cpu_offload and enable_xformers
\* left at True was only moved to the device.
C18_Witness ==
    /\ PipelineConstructed
    /\ result.ctor["device"] = Str(<<"cpu">>)
    /\ result.ctor["enable_cpu_offload"] = Bool(TRUE)
    /\ result.ctor["enable_xformers"] = Bool(TRUE)
    /\ result.status = "ok"
    /\ result.events = <<"construct", "from_pretrained", "eval", "to_device">>

(***************************************************************************)
(* C19: in from_core_configure of the pipeline with default weights, the    *)
(* i-th controlnet weight file of the registry entry is loaded with prefix  *)
(* "controlnet.nets.<i>." (i from 0 in registry order), the prefixes are    *)
(* pairwise distinct, and the number of controlnet weight entries in the    *)
(* state-dict list equals the number of controlnet config paths passed to   *)
(* the constructor, both when the registry holds a list and when it holds a *)
(* single path string.                                                      *)
(***************************************************************************)
C19_Original ==
    (/\ call.op = "from_core_configure"
     /\ call.cls = PipelineClassName
     /\ DOMAIN call.config
           \cap {"pretrained_weight_path", "pretrained_name",
                 "controlnet_configs_path"} = {}) =>
        LET registered ==
                nested_dict_value(call.infos,
                    <<PipelineDefaultName, "controlnet", "weight">>)
            files == IF registered.kind = "str" THEN <<registered>>
                     ELSE registered.items
            sd == result.ctor["state_dict"]
            nets == <<<<"c","o","n","t","r","o","l","n","e","t",".","n","e","t","s",".","0",".">>, <<"c","o","n","t","r","o","l","n","e","t",".","n","e","t","s",".","1",".">>>>
        IN  /\ Constructed(result)
            /\ sd.kind = "list"
            /\ Len(sd.items) = 4 + Len(files)
            /\ Len(files) = Len(result.ctor["controlnet_configs_path"].items)
            /\ \A i \in 1..Len(files) :
                  /\ sd.items[4 + i].file = files[i]
                  /\ \A k \in sd.items[4 + i].keys :
                        StartsWith(k.key, nets[i])

(***************************************************************************)
(* C20: in from_core_configure of the pipeline, every element of the        *)
(* controlnet_configs_path list passed to the constructor has been resolved *)
(* through cached_path, both when the resolved option is a single string    *)
(* and when it is a list of strings.                                        *)
(***************************************************************************)
C20_Original ==
    PipelineConstructed =>
        \A i \in 1..Len(result.ctor["controlnet_configs_path"].items) :
            result.ctor["controlnet_configs_path"].items[i].kind = "cached"

(***************************************************************************)
(* C21: in from_core_configure of the pipeline, the user's                  *)
(* pretrained_weight_path and the registry weights are mutually exclusive:  *)
(* when pretrained_weight_path is set, no registry weight file is loaded    *)
(* and the constructor receives state_dict = None with that weight_path;    *)
(* when it is unset and the registry entry exists, the constructor receives *)
(* weight_path = None and a state-dict list of the unet, text, text2 and    *)
(* vae weights followed by the controlnet weights.                          *)
(***************************************************************************)
C21_Original ==
    (/\ call.op = "from_core_configure"
     /\ call.cls = PipelineClassName
     /\ \A o \in PipelinePathOptions :
           o \in DOMAIN call.config \/ RegisteredPath(call, o) # None) =>
        LET weight_path ==
                getoption(call.config, "pretrained_weight_path", None)
            entry == nested_dict_value(call.infos,
                         <<getoption(call.config, "pretrained_name",
                               Str(<<PipelineDefaultName>>)).path[1]>>)
            registered(keys) == nested_dict_value(entry, keys)
            sd == result.ctor["state_dict"]
        IN  /\ Constructed(result)
            /\ result.ctor["weight_path"] = weight_path
            /\ weight_path # None => sd = None
            /\ (weight_path = None /\ entry # None) =>
                  /\ sd.kind = "list"
                  /\ Len(sd.items) > 4
                  /\ sd.items[1].file = registered(<<"unet", "weight">>)
                  /\ sd.items[2].file = registered(<<"text", "weight">>)
                  /\ sd.items[3].file = registered(<<"text2", "weight">>)
                  /\ sd.items[4].file = registered(<<"vae", "weight">>)
                  /\ \A i \in 5..Len(sd.items) :
                        \E k \in sd.items[i].keys :
                            StartsWith(k.key, <<"c","o","n","t","r","o","l","n","e","t",".">>)

(***************************************************************************)
(* C22: __call__ of the MultiControlNetXL inpainting pipeline with a        *)
(* scheduler name that is neither None nor a key of Schedulers fails its    *)
(* assertion and leaves the pipeline as it was: self.scheduler, its         *)
(* timesteps, the FreeU setting and self.seed are the same as before the    *)
(* call, and generate is not invoked.                                       *)
(***************************************************************************)
C22_FailedAssertionLeavesPipeline ==
    [][(/\ call'.op = "__call__"
        /\ call'.args["scheduler"] # None
        /\ call'.args["scheduler"].path[1] \notin Schedulers) =>
           LET i == call'.pipeline
           IN  /\ result'.status = "error"
               /\ result'.used = None
               /\ DOMAIN pipelines' = DOMAIN pipelines
               /\ pipelines'[i].scheduler.cls = pipelines[i].scheduler.cls
               /\ pipelines'[i].scheduler.config = pipelines[i].scheduler.config
               /\ pipelines'[i].scheduler.timesteps =
                      pipelines[i].scheduler.timesteps
               /\ pipelines'[i].freeu = pipelines[i].freeu
               /\ pipelines'[i].seed = pipelines[i].seed
               /\ pipelines'[i].last = pipelines[i].last
               /\ \A j \in DOMAIN pipelines : j # i => pipelines'[j] = pipelines[j]
      ]_vars

\* A call with an unregistered scheduler name has failed on a pipeline that an
\* earlier call left with another scheduler class, number of timesteps and
\* seed than this call asked for.
C22_FailedCallAfterEarlierCall ==
    /\ call.op = "__call__"
    /\ call.args["scheduler"] # None
    /\ call.args["scheduler"].path[1] \notin Schedulers
    /\ result.status = "error"
    /\ LET self == pipelines[call.pipeline]
       IN  /\ self.last # None
           /\ self.scheduler.cls \in Schedulers
           /\ self.scheduler.timesteps # None
           /\ self.scheduler.timesteps # call.args["num_timesteps"]
           /\ self.seed # None
           /\ self.seed # call.args["seed"]

=============================================================================
